---- MODULE Spec2Model ----
(***************************************************************************)
(* Multi-bot Slack forwarding relay: the Redis-backed listeners            *)
(* (src/src/core/listener_redis.py) that claim and enqueue events, and     *)
(* the forwarder worker (src/src/core/forwarder_worker.py) that consumes   *)
(* the stream forwarding:jobs and posts to the master channels.            *)
(***************************************************************************)
EXTENDS Integers, Sequences, FiniteSets, TLC

\* ------------------------------------------------------------------------
\* Bounds of the model
\* ------------------------------------------------------------------------
MaxStoreFaults == 1
MaxApiFaults == 1

\* ------------------------------------------------------------------------
\* Program constants
\* ------------------------------------------------------------------------
FCFS_TTL_SEC == 300
SIG_TEXT_LEN == 50
\* seconds of wall-clock time one Tick of the model stands for
TickSec == 150

None == "None"

\* the bot identities of the configuration (bot_id of MultiBotConfigManager)
Listeners == {1, 2}

Min(a, b) == IF a < b THEN a ELSE b

\* ------------------------------------------------------------------------
\* Strings are sequences of characters, so that suffix tests and slices
\* are computed as the code computes them.
\* ------------------------------------------------------------------------
S_admin == <<"-", "a", "d", "m", "i", "n">>
S_admins == S_admin \o <<"s">>
S_agent == <<"-", "a", "g", "e", "n", "t">>
S_agents == S_agent \o <<"s">>
S_apptbk == <<"-", "a", "p", "p", "t", "b", "k">>
S_ccdocs == <<"c", "c", "d", "o", "c", "s">>
S_master == <<"m", "a", "s", "t", "e", "r">>

\* str.endswith
EndsWith(s, suf) ==
    /\ Len(suf) <= Len(s)
    /\ SubSeq(s, Len(s) - Len(suf) + 1, Len(s)) = suf

\* s[:n]
Slice(s, n) == SubSeq(s, 1, Min(Len(s), n))

IGNORED_CHANNEL_NAMES ==
    { S_ccdocs \o S_agents,
      S_ccdocs \o S_admin,
      S_ccdocs \o S_apptbk,
      S_ccdocs \o <<"-", "d", "i", "a", "l", "e", "r">>,
      <<"b", "u", "i", "l", "d", "i", "n", "g", "-", "u", "n", "i", "v", "e", "r", "s", "a", "l">> \o S_agents,
      S_master \o S_agent,
      S_master \o S_admin \o <<"-", "s", "t", "o", "r", "m">> }

\* data/channel_lists.json as loaded at start: one managed client, one storm
\* client, and one ignored channel whose name has a forwardable suffix.
CHANNEL_CATEGORIZATIONS ==
    [ managed_channels |-> { <<"a">> \o S_admin },
      storm_channels   |-> { <<"b">> \o S_admins },
      ignored_channels |-> { <<"g">> \o S_agents } ]

\* conversations_info(channel)["channel"]["name"] of the source channels
ChannelIds == {"CMAN", "CSTO", "CUNK", "CAGT", "CAPP", "CIGN", "CIGS", "CGEN"}

ChannelName(c) ==
    CASE c = "CMAN" -> <<"a">> \o S_admin
      [] c = "CSTO" -> <<"b">> \o S_admins
      [] c = "CUNK" -> <<"c">> \o S_admin
      [] c = "CAGT" -> <<"d">> \o S_agent
      [] c = "CAPP" -> <<"e">> \o S_apptbk
      [] c = "CIGN" -> S_ccdocs \o S_apptbk
      [] c = "CIGS" -> <<"g">> \o S_agents
      [] c = "CGEN" -> <<"g", "e", "n", "e", "r", "a", "l">>

\* ------------------------------------------------------------------------
\* Events the platform can deliver.  Two long texts agree on their first
\* 50 characters and differ in the 51st.
\* ------------------------------------------------------------------------
TextA == [i \in 1..(SIG_TEXT_LEN + 1) |-> IF i = SIG_TEXT_LEN + 1 THEN "x" ELSE "a"]
TextB == [i \in 1..(SIG_TEXT_LEN + 1) |-> IF i = SIG_TEXT_LEN + 1 THEN "y" ELSE "a"]
TextHi == <<"h", "i">>
TextBk == <<"b", "k">>
TextOk == <<"o", "k">>

Ev(kind, channel, ts, cmid, user, bot, text, thread) ==
    [ kind |-> kind, channel |-> channel, ts |-> ts, client_msg_id |-> cmid,
      user |-> user, bot_id |-> bot, text |-> text, thread_ts |-> thread ]

EventPool ==
    << Ev("message", "CMAN", "101", "x", "U1", None, TextHi, None),
       Ev("message", "CMAN", "102", None, "U1", None, TextA, None),
       Ev("message", "CMAN", "103", None, "U1", None, TextB, None),
       Ev("message", "CAPP", "104", None, None, "B1", TextBk, None),
       Ev("message", "CAGT", "105", None, None, "B1", TextBk, None),
       Ev("message", "CIGN", "106", "y", "U1", None, TextHi, None),
       Ev("message_changed", "CMAN", "101", "x", "U1", None, TextBk, None),
       Ev("message", "CSTO", "108", "z", "U2", None, TextHi, "100"),
       Ev("message", "CUNK", "109", "w", "U1", None, TextHi, None),
       Ev("message", "CIGS", "110", "v", "U1", None, TextHi, None),
       Ev("message", "CAPP", "111", None, None, "B2", TextBk, None),
       Ev("message_changed", "CMAN", "101", "x", "U1", None, TextOk, None),
       Ev("message", "CSTO", "100", "p", "U2", None, TextA, None),
       Ev("message", "CAGT", "112", "q", "U1", None, TextHi, None),
       Ev("message", "CGEN", "113", "r", "U1", None, TextHi, None) >>

EventIds == 1..Len(EventPool)

\* the events that can occur in one run: any single event of the pool, or
\* one of these pairs: a message and its edit, two user messages with one
\* content signature, two bot messages with one content signature, two
\* successive edits of one message, two different messages of one channel
PairScenarios == { {1, 7}, {2, 3}, {4, 11}, {7, 12}, {1, 2} }

InScenario(events) == Cardinality(events) <= 1 \/ events \in PairScenarios


\* ------------------------------------------------------------------------
\* Environment of a listener process (os.environ at import time)
\* ------------------------------------------------------------------------
MasterConfigs ==
    { [ AGENT_MASTER_CHANNEL_ID |-> "M_AGENT", APPTBK_MASTER_CHANNEL_ID |-> "M_APPTBK",
        MANAGED_ADMIN_MASTER_CHANNEL_ID |-> "M_MANAGED", STORM_ADMIN_MASTER_CHANNEL_ID |-> "M_STORM" ],
      [ AGENT_MASTER_CHANNEL_ID |-> "M_AGENT", APPTBK_MASTER_CHANNEL_ID |-> "M_APPTBK",
        MANAGED_ADMIN_MASTER_CHANNEL_ID |-> "M_MANAGED", STORM_ADMIN_MASTER_CHANNEL_ID |-> None ] }

Categories == {"managed_admin", "storm_admin", "agent", "apptbk"}

VARIABLES
    env,        \* the master channel ids of the environment
    lrun,       \* lrun[l]: "init", "running" or "stopped" (main of listener l)
    redis_kv,   \* the keys of the state store: records [key, val, ttl],
                \* ttl the seconds the key has left to live
    lapsed,     \* the keys whose TTL has run out at least once
    faults,     \* the calls that failed and the worker crashes so far,
                \* [store, api, crash], and the most that happen in this
                \* run, [max_store, max_api, max_crash]
    stream,     \* the stream forwarding:jobs, oldest entry first
    h,          \* h[l][e]: listener l's handling of event e: [pc, claim]
    group,      \* the consumer group workers: [exists, last, pel], and
                \* base, the last entry of the stream when it was created
    wk,         \* the worker's position and locals
    wlog,       \* the store and platform calls of the worker, oldest first
    cfg,        \* the MultiBotConfigManager of bot 1 and the assignment file
    sup         \* the MultiBotLauncher and its child processes

lvars == <<env, lrun, redis_kv, lapsed, faults, stream, h>>
wvars == <<group, wk, wlog>>
ovars == <<cfg, sup>>
vars == <<lvars, wvars, ovars>>

\* ------------------------------------------------------------------------
\* Pure functions of listener_redis.py
\* ------------------------------------------------------------------------
\* a variant with one prefix for both kinds of event
build_fcfs_key_OnePrefix(event_type, channel_id, identifier) ==
    <<"fcfs", "msg", channel_id, identifier>>

build_fcfs_key(event_type, channel_id, identifier) ==
    IF event_type = "message_changed"
    THEN <<"fcfs", "edit", channel_id, identifier>>
    ELSE <<"fcfs", "msg", channel_id, identifier>>

\* f"{channel_id}:{event.get('user', 'bot')}:{event.get('text', '')[:50]}"
EventSignature(ev) ==
    << ev.channel, IF ev.user # None THEN ev.user ELSE "bot", Slice(ev.text, SIG_TEXT_LEN) >>

\* hashlib.md5(sig).hexdigest()[:16]: a deterministic digest of the
\* signature, taken to be free of collisions.  The digest is written as the
\* number of the first event of the pool that has this signature, so equal
\* signatures have equal digests and different signatures different ones.
Md5Hex16(sig) ==
    << "md5", CHOOSE e \in EventIds :
                /\ EventSignature(EventPool[e]) = sig
                /\ \A f \in 1..(e - 1) : EventSignature(EventPool[f]) # sig >>

MessageIdentifier(ev) ==
    IF ev.client_msg_id # None
    THEN <<"id", ev.client_msg_id>>
    ELSE Md5Hex16(EventSignature(ev))

ClaimKey(ev) == build_fcfs_key(ev.kind, ev.channel, MessageIdentifier(ev))

\* the identifier and the claim key of every event of the pool
IdentifierOf == [e \in EventIds |-> MessageIdentifier(EventPool[e])]
ClaimKeyOf ==
    [e \in EventIds |-> build_fcfs_key(EventPool[e].kind, EventPool[e].channel, IdentifierOf[e])]

\* a variant that takes an -admin channel of neither set for a storm channel
classify_channel_DefaultStorm(channel_name) ==
    IF EndsWith(channel_name, S_apptbk) THEN "apptbk"
    ELSE IF EndsWith(channel_name, S_admin) \/ EndsWith(channel_name, S_admins)
    THEN IF channel_name \in CHANNEL_CATEGORIZATIONS.managed_channels THEN "managed_admin"
         ELSE "storm_admin"
    ELSE IF EndsWith(channel_name, S_agent) \/ EndsWith(channel_name, S_agents) THEN "agent"
    ELSE None

classify_channel(channel_name) ==
    IF EndsWith(channel_name, S_apptbk) THEN "apptbk"
    ELSE IF EndsWith(channel_name, S_admin) \/ EndsWith(channel_name, S_admins)
    THEN IF channel_name \in CHANNEL_CATEGORIZATIONS.managed_channels THEN "managed_admin"
         ELSE IF channel_name \in CHANNEL_CATEGORIZATIONS.storm_channels THEN "storm_admin"
         ELSE None
    ELSE IF EndsWith(channel_name, S_agent) \/ EndsWith(channel_name, S_agents) THEN "agent"
    ELSE None

\* a variant that takes the managed and the storm master for each other
resolve_target_channel_Swapped(category) ==
    CASE category = "managed_admin" -> env.STORM_ADMIN_MASTER_CHANNEL_ID
      [] category = "storm_admin" -> env.MANAGED_ADMIN_MASTER_CHANNEL_ID
      [] category = "agent" -> env.AGENT_MASTER_CHANNEL_ID
      [] category = "apptbk" -> env.APPTBK_MASTER_CHANNEL_ID
      [] OTHER -> None

resolve_target_channel(category) ==
    CASE category = "managed_admin" -> env.MANAGED_ADMIN_MASTER_CHANNEL_ID
      [] category = "storm_admin" -> env.STORM_ADMIN_MASTER_CHANNEL_ID
      [] category = "agent" -> env.AGENT_MASTER_CHANNEL_ID
      [] category = "apptbk" -> env.APPTBK_MASTER_CHANNEL_ID
      [] OTHER -> None

\* a variant that consults the hard-coded list alone
IsIgnoredName_HardCodedOnly(channel_name) == channel_name \in IGNORED_CHANNEL_NAMES

\* lines 338-341: the hard-coded list or the ignored set of the file
IsIgnoredName(channel_name) ==
    \/ channel_name \in IGNORED_CHANNEL_NAMES
    \/ channel_name \in CHANNEL_CATEGORIZATIONS.ignored_channels

BotFilterDrops(ev, channel_name) ==
    ev.bot_id # None /\ ~EndsWith(channel_name, S_apptbk)

\* the checks of lines 338-353 (and 416-430), in the order of the code:
\* the reason the handler returns, or "pass"
FilterOutcome(ev) ==
    LET channel_name == ChannelName(ev.channel) IN
    IF IsIgnoredName(channel_name) THEN "ignored"
    ELSE IF BotFilterDrops(ev, channel_name) THEN "bot_filtered"
    ELSE IF classify_channel(channel_name) = None THEN "unknown"
    ELSE IF resolve_target_channel(classify_channel(channel_name)) = None THEN "no_target"
    ELSE "pass"

\* str(v) of the values a payload holds, as enqueue_forward_job flattens them
StrOfBool(b) == IF b THEN "True" ELSE "False"
StrOfInt(n) == CASE n = 1 -> "1" [] n = 2 -> "2" [] n = 3 -> "3" [] OTHER -> "9"

\* job_payload of handle_message / handle_message_edit after the flattening
\* of enqueue_forward_job (None values are left out: here None).  The fields
\* attachments and files, which are copied through unread, are not carried.
JobPayload(l, ev) ==
    LET channel_name == ChannelName(ev.channel)
        category == classify_channel(channel_name)
        is_post == ev.kind = "message"
    IN  [ type |-> IF is_post THEN "post" ELSE "update",
          category |-> category,
          source_channel_id |-> ev.channel,
          source_channel_name |-> channel_name,
          target_channel_id |-> resolve_target_channel(category),
          user |-> IF ev.user # None THEN ev.user
                   ELSE IF ev.bot_id # None THEN ev.bot_id ELSE "unknown",
          ts |-> ev.ts,
          text |-> ev.text,
          thread_ts |-> IF is_post THEN ev.thread_ts ELSE None,
          is_thread_reply |-> IF is_post
                              THEN StrOfBool(ev.thread_ts # None /\ ev.thread_ts # ev.ts)
                              ELSE None,
          bot_id |-> StrOfInt(l) ]

\* ------------------------------------------------------------------------
\* The state store
\* ------------------------------------------------------------------------
KeyHeld(key) == \E rec \in redis_kv : rec.key = key

\* r.set(key, value, nx=True, ex=ttl): the store after the call
RedisSetNX(key, value, ttl) ==
    IF KeyHeld(key) THEN redis_kv
    ELSE redis_kv \cup { [key |-> key, val |-> value, ttl |-> ttl] }

\* a variant that answers as a SET without nx does
RedisSetNXReply_Always(key) == TRUE

\* ... and its return value
RedisSetNXReply(key) == ~KeyHeld(key)

\* ------------------------------------------------------------------------
\* Initial state
\* ------------------------------------------------------------------------
Idle == [pc |-> "idle", claim |-> "none"]

\* no call has failed yet, and at most max_store store calls and max_api
\* platform calls fail and the worker crashes at most max_crash times
NoFaults(max_store, max_api, max_crash) ==
    [ store |-> 0, api |-> 0, crash |-> 0,
      max_store |-> max_store, max_api |-> max_api, max_crash |-> max_crash ]

\* a destination ts that is absent
NoTs == <<>>

\* the source channels that channel discovery hands to the assignment (the
\* channels whose name ends in -admin or -admins)
AdminChannels == {"CMAN", "CSTO", "CUNK"}
\* a table without entries; 0 stands for "no entry"
NoTable == [c \in AdminChannels |-> 0]
\* no manager constructed
CfgOff ==
    [ bots |-> 0, table |-> NoTable, file |-> NoTable, input |-> <<>>,
      pre_table |-> NoTable, pre_file |-> NoTable,
      status |-> "off", map |-> <<>>, saved |-> "skipped",
      loaded |-> [l \in Listeners |-> NoTable], written |-> {} ]
\* the children of the launcher: one BotRunner per configured bot, and the
\* forwarder worker; the monitor looks at them in this order
BotRunners == {"bot1", "bot2"}
Children == BotRunners \cup {"worker"}
MonitorOrder == <<"bot1", "bot2", "worker">>

\* MultiBotLauncher.__init__: not running, no process created.  Beside the
\* fields of the launcher the record keeps the position of the monitor
\* thread between its test and its start call (decided), the position of
\* stop_all_bots (stop), the children started after running was cleared
\* (late) and the children whose process object was replaced while its
\* process was alive (orphans)
SupOff ==
    [ running |-> FALSE,
      proc |-> [c \in Children |-> "none"],
      flag |-> [c \in BotRunners |-> FALSE],
      mon |-> 0,
      worker_count_env |-> None,
      exits |-> 0,
      start_faults |-> 0,
      restarted |-> {},
      decided |-> FALSE,
      stop |-> "no",
      late |-> {},
      orphans |-> {} ]
\* the stream before xgroup_create
NoGroup == [exists |-> FALSE, last |-> 0, pel |-> {}, base |-> 0]
\* the locals of the worker: the batch read, the position in it, the loop
\* counter and the backoff of the retry loop, master_parent_ts, master_ts
\* and the ts of original_msg
WorkerLocals(pc, batch, pos) ==
    [ pc |-> pc, batch |-> batch, pos |-> pos, attempt |-> 0, backoff |-> 1,
      parent |-> NoTs, master |-> NoTs, orig |-> None ]
\* no worker process
WorkerOff == WorkerLocals("off", <<>>, 0)

LInit ==
    /\ env \in MasterConfigs
    /\ lrun = [l \in Listeners |-> "init"]
    /\ redis_kv = {}
    /\ lapsed = {}
    /\ faults = NoFaults(MaxStoreFaults, MaxApiFaults, 0)
    /\ stream = <<>>
    /\ h = [l \in Listeners |-> [e \in EventIds |-> Idle]]
    /\ group = NoGroup
    /\ wk = WorkerOff
    /\ wlog = <<>>
    /\ cfg = CfgOff
    /\ sup = SupOff

\* ------------------------------------------------------------------------
\* Listener actions.  A handler is cut at its calls to the outside: the
\* claim (state store), the channel-name lookup (platform) and the append
\* (state store); what lies between two calls is local and goes with the
\* call that follows it.
\* ------------------------------------------------------------------------
Delivered == { e \in EventIds : \E l \in Listeners : h[l][e].pc # "idle" }

\* the outcomes of a call to the state store: it answers, or (while the
\* budget of faults lasts) the call raises
StoreOutcomes == IF faults.store < faults.max_store THEN {TRUE, FALSE} ELSE {TRUE}
\* the outcomes of a call to the chat platform
ApiOutcomes == IF faults.api < faults.max_api THEN {TRUE, FALSE} ELSE {TRUE}

StoreFault(ok) == [faults EXCEPT !.store = IF ok THEN @ ELSE @ + 1]
ApiFault(ok) == [faults EXCEPT !.api = IF ok THEN @ ELSE @ + 1]

\* validate_master_channels, called by main before the socket is opened
MastersSet ==
    /\ env.AGENT_MASTER_CHANNEL_ID # None
    /\ env.APPTBK_MASTER_CHANNEL_ID # None
    /\ env.MANAGED_ADMIN_MASTER_CHANNEL_ID # None
    /\ env.STORM_ADMIN_MASTER_CHANNEL_ID # None

\* main: validate_master_channels raises (and the listener never connects)
\* when a master channel id is missing or its conversations_info call fails
Main(l) ==
    /\ lrun[l] = "init"
    /\ \E info_ok \in BOOLEAN :
         lrun' = [lrun EXCEPT ![l] = IF MastersSet /\ info_ok THEN "running" ELSE "stopped"]
    /\ UNCHANGED <<ovars, env, redis_kv, lapsed, faults, stream, h, wvars>>

\* a variant that fails closed
try_fcfs_claim_FailClosed(store_up, key) ==
    IF store_up THEN RedisSetNXReply(key) ELSE FALSE

\* try_fcfs_claim: the value returned, given whether the store answers
try_fcfs_claim(store_up, key) ==
    IF store_up THEN RedisSetNXReply(key) ELSE TRUE

\* handle_message / handle_message_edit up to the claim (lines 320-332, 396-410)
HandleClaim(l, e) ==
    LET identifier == IdentifierOf[e]
        key == ClaimKeyOf[e]
    IN  /\ lrun[l] = "running"
        /\ h[l][e].pc = "idle"
        /\ InScenario(Delivered \cup {e})
        /\ \E store_up \in StoreOutcomes :
             LET won == try_fcfs_claim(store_up, key) IN
             /\ redis_kv' = IF store_up THEN RedisSetNX(key, identifier, FCFS_TTL_SEC) ELSE redis_kv
             /\ faults' = StoreFault(store_up)
             /\ h' = [h EXCEPT ![l][e] =
                        [ pc |-> IF won THEN "lookup" ELSE "duplicate",
                          claim |-> IF ~store_up THEN "failopen" ELSE IF won THEN "won" ELSE "lost" ]]
        /\ UNCHANGED <<ovars, env, lrun, lapsed, stream, wvars>>

\* the channel-name lookup and the filters (lines 334-357, 412-433)
HandleLookup(l, e) ==
    /\ h[l][e].pc = "lookup"
    /\ \E info_ok \in ApiOutcomes :
         LET outcome == IF info_ok THEN FilterOutcome(EventPool[e]) ELSE "lookup_error" IN
         /\ h' = [h EXCEPT ![l][e].pc = IF outcome = "pass" THEN "append" ELSE outcome]
         /\ faults' = ApiFault(info_ok)
    /\ UNCHANGED <<ovars, env, lrun, redis_kv, lapsed, stream, wvars>>

\* enqueue_forward_job (lines 263-281) and the end of the handler
HandleAppend(l, e) ==
    /\ h[l][e].pc = "append"
    /\ \E store_up \in StoreOutcomes :
         /\ stream' = IF store_up THEN Append(stream, JobPayload(l, EventPool[e])) ELSE stream
         /\ h' = [h EXCEPT ![l][e].pc = IF store_up THEN "enqueued" ELSE "append_failed"]
         /\ faults' = StoreFault(store_up)
    /\ UNCHANGED <<ovars, env, lrun, redis_kv, lapsed, wvars>>

\* TickSec seconds pass; the store drops the keys whose TTL has run out
Advance(sec) ==
    /\ redis_kv' = { [rec EXCEPT !.ttl = @ - sec] : rec \in { x \in redis_kv : x.ttl > sec } }
    /\ lapsed' = lapsed \cup { rec.key : rec \in { x \in redis_kv : x.ttl <= sec } }

Tick ==
    /\ Advance(TickSec)
    /\ UNCHANGED <<ovars, env, lrun, faults, stream, h, wvars>>

Next ==
    \/ \E l \in Listeners : Main(l)
    \/ \E l \in Listeners, e \in EventIds : HandleClaim(l, e)
    \/ \E l \in Listeners, e \in EventIds : HandleLookup(l, e)
    \/ \E l \in Listeners, e \in EventIds : HandleAppend(l, e)
    \/ Tick

Spec == LInit /\ [][Next]_vars

\* ------------------------------------------------------------------------
\* Two messages of one channel, delivered to every listener in their order
\* ------------------------------------------------------------------------
\* m1 and m2: two messages of channel CMAN with different identifiers
FirstMessage == 1
SecondMessage == 2

\* no listener has started on m2 while m1 has not reached it
ReceivedInOrder ==
    \A l \in Listeners :
        h[l][SecondMessage].pc # "idle" => h[l][FirstMessage].pc # "idle"

\* the platform delivers m1 and then m2 to listener l, which starts the
\* handler of each
ReceiveInOrder(l, e) ==
    /\ e \in {FirstMessage, SecondMessage}
    /\ HandleClaim(l, e)
    /\ ReceivedInOrder'

ONext ==
    \/ \E l \in Listeners : Main(l)
    \/ \E l \in Listeners, e \in EventIds : ReceiveInOrder(l, e)
    \/ \E l \in Listeners, e \in EventIds : HandleLookup(l, e)
    \/ \E l \in Listeners, e \in EventIds : HandleAppend(l, e)
    \/ Tick

SpecO == LInit /\ [][ONext]_vars


\* ========================================================================
\* The forwarder worker (src/src/core/forwarder_worker.py)
\* ========================================================================
\* seconds of wall-clock time one WTick of the model stands for
MapTickSec == 604800

MAP_TTL_SEC == 604800
READ_COUNT == 10
MAX_ATTEMPTS == 4

\* int(v) of a decimal string; 0 stands for "raises"
IntOfStr(v) == CASE v = "1" -> 1 [] v = "2" -> 2 [] v = "3" -> 3 [] OTHER -> 0

\* the jobs that can be appended in one run, as pairs <<listener, event of
\* the pool>> in the order of their jobs, or any beginning of that: a
\* message and its edit in either order, a message forwarded twice, an edit
\* forwarded twice, a reply forwarded twice, a message and a reply, a thread
\* root and a reply to it
JobScenarios ==
    { << <<1, 1>>, <<2, 7>> >>, << <<1, 7>>, <<1, 1>> >>, << <<1, 1>>, <<2, 1>> >>,
      << <<2, 7>>, <<1, 7>> >>, << <<2, 8>>, <<1, 8>> >>, << <<2, 1>>, <<2, 8>> >>,
      << <<1, 13>>, <<2, 8>> >> }

\* the event a stream entry forwards
JobForwards(job, e) ==
    /\ EventPool[e].channel = job.source_channel_id
    /\ EventPool[e].ts = job.ts
    /\ EventPool[e].text = job.text
    /\ (EventPool[e].kind = "message") = (job.type = "post")

EventOfJob(job) ==
    CHOOSE e \in EventIds :
        /\ JobForwards(job, e)
        /\ \A f \in 1..(e - 1) : ~JobForwards(job, f)

InJobScenario(l, e) ==
    \E sc \in JobScenarios :
        /\ Len(stream) < Len(sc)
        /\ sc[Len(stream) + 1] = <<l, e>>
        /\ \A i \in 1..Len(stream) :
              sc[i] = <<IntOfStr(stream[i].bot_id), EventOfJob(stream[i])>>
\* the ts of the message below the thread root in the source channel
OlderTs == "099"

MAP_MSG_KEY(channel_id, ts) == <<"map", "msg", channel_id, ts>>
MAP_PARENT_KEY(channel_id, parent_ts) == <<"map", "parent", channel_id, parent_ts>>

\* r.get(key): the value, or NoTs
RedisGet(key) ==
    IF KeyHeld(key) THEN (CHOOSE rec \in redis_kv : rec.key = key).val ELSE NoTs

\* r.set(key, value, ex=ttl): the store after the call
RedisSet(key, value, ttl) ==
    { rec \in redis_kv : rec.key # key } \cup { [key |-> key, val |-> value, ttl |-> ttl] }

\* parse_stream_message: the fields of a stream entry as the handlers see
\* them
parse_stream_message(data) ==
    [ data EXCEPT !.is_thread_reply = (@ \in {"1", "true", "True"}),
                  !.bot_id = IF IntOfStr(@) # 0 THEN IntOfStr(@) ELSE 1 ]

\* get_client_for_bot: the identity whose client makes the calls
get_client_for_bot(bot_id) ==
    IF bot_id \in Listeners THEN bot_id ELSE CHOOSE l \in Listeners : \A k \in Listeners : l <= k

\* the entry the worker handles, and its parsed payload
CurId == wk.batch[wk.pos]
CurJob == parse_stream_message(stream[CurId])

\* the Retry-After header of a rate-limited response, in seconds
RETRY_AFTER_SEC == 3

\* lines 234-240: the seconds the retry loop sleeps after an attempt
SleepAfter(res) ==
    CASE res = "retry_after" -> RETRY_AFTER_SEC
      [] res = "retryable" /\ wk.attempt < MAX_ATTEMPTS - 1 -> wk.backoff
      [] OTHER -> 0

\* one call of the worker, as wlog records it: the call, its result, the
\* entry handled, the client, the arguments, for a store call the value
\* the store holds under the key when the call is made, for an attempt
\* of a retry loop the seconds slept after it, and for a platform write the
\* ts of the source message whose text the call carries (src)
Eff(op, res, channel, key, ts, thread) ==
    [ op |-> op, res |-> res, job |-> CurId, client |-> get_client_for_bot(CurJob.bot_id),
      channel |-> channel, key |-> key, ts |-> ts, thread |-> thread,
      held |-> IF key = NoTs THEN NoTs ELSE RedisGet(key),
      sleep |-> IF op \in {"post", "update"} THEN SleepAfter(res) ELSE 0,
      src |-> CASE op = "post_parent" -> wk.orig
                [] op \in {"post", "update"} -> CurJob.ts
                [] OTHER -> None ]

\* the ts the platform gives the next message posted
NewTs == <<"T", 1 + Cardinality({ i \in 1..Len(wlog) :
                    wlog[i].op \in {"post", "post_parent"} /\ wlog[i].res = "ok" })>>

\* main, lines 313-321, and handle_post_job, lines 211-212: the first call
\* that the handling of an entry makes
Dispatch(id) ==
    LET payload == parse_stream_message(stream[id]) IN
    IF payload.type = "update" THEN "upd_get"
    ELSE IF payload.is_thread_reply /\ payload.thread_ts # None THEN "parent_get"
    ELSE "post"

StartJob(batch, pos) == WorkerLocals(Dispatch(batch[pos]), batch, pos)

\* after the ack of an entry: the next entry of the batch, or the next read
NextEntry ==
    IF wk.pos < Len(wk.batch) THEN StartJob(wk.batch, wk.pos + 1)
    ELSE WorkerLocals("read", <<>>, 0)

\* the outcomes of a chat_postMessage or chat_update call
CallOutcomes ==
    IF faults.api < faults.max_api THEN {"ok", "retry_after", "retryable", "fatal"} ELSE {"ok"}

\* a variant that retries every error
AfterFailure_RetryAll(outcome) ==
    IF wk.attempt < MAX_ATTEMPTS - 1 THEN [wk EXCEPT !.attempt = @ + 1]
    ELSE [wk EXCEPT !.pc = "ack"]

\* a variant whose loop has no end
AfterFailure_NoCap(outcome) ==
    CASE outcome = "retry_after" -> [wk EXCEPT !.attempt = @ + 1]
      [] outcome = "retryable" -> [wk EXCEPT !.attempt = @ + 1, !.backoff = 2 * @]
      [] OTHER -> [wk EXCEPT !.pc = "ack"]

\* the retry loop of lines 219-242 and 259-279: the position after a failed
\* attempt
AfterFailure(outcome) ==
    CASE outcome = "retry_after" ->
            IF wk.attempt + 1 < MAX_ATTEMPTS THEN [wk EXCEPT !.attempt = @ + 1]
            ELSE [wk EXCEPT !.pc = "ack"]
      [] outcome = "retryable" ->
            IF wk.attempt < MAX_ATTEMPTS - 1
            THEN [wk EXCEPT !.attempt = @ + 1, !.backoff = 2 * @]
            ELSE [wk EXCEPT !.pc = "ack"]
      [] OTHER -> [wk EXCEPT !.pc = "ack"]

WInit ==
    /\ env \in { m \in MasterConfigs : m.STORM_ADMIN_MASTER_CHANNEL_ID # None }
    /\ lrun = [l \in Listeners |-> "running"]
    /\ redis_kv = {}
    /\ lapsed = {}
    /\ faults = NoFaults(MaxStoreFaults, MaxApiFaults, 0)
    /\ stream = <<>>
    /\ h = [l \in Listeners |-> [e \in EventIds |-> Idle]]
    /\ group = NoGroup
    /\ wk = WorkerLocals("start", <<>>, 0)
    /\ wlog = <<>>
    /\ cfg = CfgOff
    /\ sup = SupOff

\* a variant of the listener that also posts the message itself, as a call
\* outside the handling of any stream entry
XAdd_PostsInline(l, e) ==
    /\ lrun[l] = "running"
    /\ InJobScenario(l, e)
    /\ FilterOutcome(EventPool[e]) = "pass"
    /\ stream' = Append(stream, JobPayload(l, EventPool[e]))
    /\ wlog' = Append(wlog, [ op |-> "post", res |-> "ok", job |-> 0, client |-> l,
                              channel |-> resolve_target_channel(classify_channel(ChannelName(EventPool[e].channel))),
                              key |-> NoTs, ts |-> NoTs, thread |-> NoTs, held |-> NoTs, sleep |-> 0,
                              src |-> EventPool[e].ts ])
    /\ UNCHANGED <<ovars, env, lrun, redis_kv, lapsed, faults, h, group, wk>>

\* a listener that won the claim of event e and passed the filters appends
\* the job (enqueue_forward_job)
XAdd(l, e) ==
    /\ lrun[l] = "running"
    /\ InJobScenario(l, e)
    /\ FilterOutcome(EventPool[e]) = "pass"
    /\ stream' = Append(stream, JobPayload(l, EventPool[e]))
    /\ UNCHANGED <<ovars, env, lrun, redis_kv, lapsed, faults, h, wvars>>

\* a variant that creates the group at the beginning of the stream:
\* xgroup_create(id='0')
GroupStartId_FromBeginning == IntOfStr("0")

\* xgroup_create(id='$'): the last entry of the stream
GroupStartId == Len(stream)

\* ensure_group: xgroup_create at '$'; every error is swallowed
WStart ==
    /\ wk.pc = "start"
    /\ \E store_up \in StoreOutcomes :
         /\ group' = IF store_up /\ ~group.exists
                     THEN [exists |-> TRUE, last |-> GroupStartId, pel |-> {}, base |-> Len(stream)]
                     ELSE group
         /\ faults' = StoreFault(store_up)
    /\ wk' = [wk EXCEPT !.pc = "read"]
    /\ UNCHANGED <<ovars, env, lrun, redis_kv, lapsed, stream, h, wlog>>

\* xreadgroup('>', count=10): the entries never delivered to the group; a
\* store error is caught by the outer handler and the loop reads again
WRead ==
    /\ wk.pc = "read"
    /\ group.exists
    /\ \E store_up \in StoreOutcomes :
         LET last == Min(Len(stream), group.last + READ_COUNT)
             batch == [i \in 1..(last - group.last) |-> group.last + i]
         IN  /\ store_up => batch # <<>>
             /\ group' = IF store_up
                         THEN [group EXCEPT !.last = last, !.pel = @ \cup (group.last + 1)..last]
                         ELSE group
             /\ wk' = IF store_up THEN StartJob(batch, 1) ELSE wk
             /\ faults' = StoreFault(store_up)
    /\ UNCHANGED <<ovars, env, lrun, redis_kv, lapsed, stream, h, wlog>>

\* ensure_parent_posted, lines 158-170: the lookup in the parent map; a
\* store error reads as a miss
ParentGet ==
    /\ wk.pc = "parent_get"
    /\ \E store_up \in StoreOutcomes :
         LET key == MAP_PARENT_KEY(CurJob.source_channel_id, CurJob.thread_ts)
             master_parent_ts == IF store_up THEN RedisGet(key) ELSE NoTs
         IN  /\ wk' = IF master_parent_ts # NoTs
                      THEN [wk EXCEPT !.pc = "post", !.parent = master_parent_ts]
                      ELSE [wk EXCEPT !.pc = "history"]
             /\ wlog' = Append(wlog, Eff("get_parent", IF store_up THEN "ok" ELSE "error",
                                         CurJob.source_channel_id, key, master_parent_ts, NoTs))
             /\ faults' = StoreFault(store_up)
    /\ UNCHANGED <<ovars, env, lrun, redis_kv, lapsed, stream, h, group>>

\* lines 173-178: conversations_history(latest=thread_ts, limit=1,
\* inclusive) answers with the latest message of the source channel that is
\* not later than thread_ts: the thread root, an older message when the
\* root is gone, or nothing; an API error or an empty answer ends
\* ensure_parent_posted with None
History ==
    /\ wk.pc = "history"
    /\ \E outcome \in CallOutcomes, holds \in {"root", "older", "nothing"} :
         LET api_ok == outcome = "ok"
             parent_ts == CASE holds = "root" -> CurJob.thread_ts
                            [] holds = "older" -> OlderTs
                            [] OTHER -> None
             found == api_ok /\ parent_ts # None
         IN  /\ ~api_ok => holds = "root"
             /\ wk' = IF found THEN [wk EXCEPT !.pc = "parent_post", !.orig = parent_ts]
                      ELSE [wk EXCEPT !.pc = "post"]
             /\ wlog' = Append(wlog, Eff("history", IF ~api_ok THEN outcome ELSE IF found THEN "ok" ELSE "empty",
                                         CurJob.source_channel_id, NoTs, NoTs, NoTs))
             /\ faults' = ApiFault(api_ok)
    /\ UNCHANGED <<ovars, env, lrun, redis_kv, lapsed, stream, h, group>>

\* lines 179-182 and 185-187: the synthetic parent is posted once, outside
\* any retry loop; an API error ends ensure_parent_posted with None
ParentPost ==
    /\ wk.pc = "parent_post"
    /\ \E outcome \in CallOutcomes :
         LET api_ok == outcome = "ok" IN
         /\ wk' = IF api_ok THEN [wk EXCEPT !.pc = "parent_set", !.parent = NewTs]
                  ELSE [wk EXCEPT !.pc = "post"]
         /\ wlog' = Append(wlog, Eff("post_parent", outcome,
                                     CurJob.target_channel_id, NoTs,
                                     IF api_ok THEN NewTs ELSE NoTs, NoTs))
         /\ faults' = ApiFault(api_ok)
    /\ UNCHANGED <<ovars, env, lrun, redis_kv, lapsed, stream, h, group>>

\* a variant that keys the entry by the thread_ts of the reply
ParentKeyTs_ThreadTs == CurJob.thread_ts

\* line 179: parent_ts = original_msg["ts"]
ParentKeyTs == wk.orig

\* line 183, set_master_ts_for_parent: keyed by the ts of the message the
\* history call returned; a store error is swallowed
ParentSet ==
    /\ wk.pc = "parent_set"
    /\ \E store_up \in StoreOutcomes :
         LET key == MAP_PARENT_KEY(CurJob.source_channel_id, ParentKeyTs) IN
         /\ redis_kv' = IF store_up THEN RedisSet(key, wk.parent, MAP_TTL_SEC) ELSE redis_kv
         /\ wlog' = Append(wlog, Eff("set_parent", IF store_up THEN "ok" ELSE "error",
                                     CurJob.source_channel_id, key, wk.parent, NoTs))
         /\ faults' = StoreFault(store_up)
    /\ wk' = [wk EXCEPT !.pc = "post"]
    /\ UNCHANGED <<ovars, env, lrun, lapsed, stream, h, group>>

\* a variant that acknowledges straight after a successful post
AfterPostOk_NoMapWrite == "ack"

\* lines 222-224: `if ts` holds for every job a listener appends
AfterPostOk == "msg_set"

\* handle_post_job, lines 219-242: one attempt of chat_postMessage
PostAttempt ==
    /\ wk.pc = "post"
    /\ \E outcome \in CallOutcomes :
         /\ wk' = IF outcome = "ok" THEN [wk EXCEPT !.pc = AfterPostOk, !.master = NewTs]
                  ELSE AfterFailure(outcome)
         /\ wlog' = Append(wlog, Eff("post", outcome, CurJob.target_channel_id, NoTs,
                                     IF outcome = "ok" THEN NewTs ELSE NoTs, wk.parent))
         /\ faults' = ApiFault(outcome = "ok")
    /\ UNCHANGED <<ovars, env, lrun, redis_kv, lapsed, stream, h, group>>

\* set_master_ts_for_message: a store error is swallowed
MsgSet ==
    /\ wk.pc = "msg_set"
    /\ \E store_up \in StoreOutcomes :
         LET key == MAP_MSG_KEY(CurJob.source_channel_id, CurJob.ts) IN
         /\ redis_kv' = IF store_up THEN RedisSet(key, wk.master, MAP_TTL_SEC) ELSE redis_kv
         /\ wlog' = Append(wlog, Eff("set_msg", IF store_up THEN "ok" ELSE "error",
                                     CurJob.source_channel_id, key, wk.master, NoTs))
         /\ faults' = StoreFault(store_up)
    /\ wk' = [wk EXCEPT !.pc = "ack"]
    /\ UNCHANGED <<ovars, env, lrun, lapsed, stream, h, group>>

\* handle_update_job, lines 251-254: the lookup in the message map; a store
\* error reads as a miss
UpdGet ==
    /\ wk.pc = "upd_get"
    /\ \E store_up \in StoreOutcomes :
         LET key == MAP_MSG_KEY(CurJob.source_channel_id, CurJob.ts)
             master_ts == IF store_up THEN RedisGet(key) ELSE NoTs
         IN  /\ wk' = IF master_ts # NoTs
                      THEN [wk EXCEPT !.pc = "update", !.master = master_ts]
                      ELSE [wk EXCEPT !.pc = "ack"]
             /\ wlog' = Append(wlog, Eff("get_msg", IF store_up THEN "ok" ELSE "error",
                                         CurJob.source_channel_id, key, master_ts, NoTs))
             /\ faults' = StoreFault(store_up)
    /\ UNCHANGED <<ovars, env, lrun, redis_kv, lapsed, stream, h, group>>

\* a variant that addresses the update by the ts of the source message
UpdateTs_SourceTs == <<"S", CurJob.ts>>

\* line 256: params["ts"]
UpdateTs == wk.master

\* handle_update_job, lines 259-279: one attempt of chat_update
UpdateAttempt ==
    /\ wk.pc = "update"
    /\ \E outcome \in CallOutcomes :
         /\ wk' = IF outcome = "ok" THEN [wk EXCEPT !.pc = "ack"] ELSE AfterFailure(outcome)
         /\ wlog' = Append(wlog, Eff("update", outcome, CurJob.target_channel_id, NoTs, UpdateTs, NoTs))
         /\ faults' = ApiFault(outcome = "ok")
    /\ UNCHANGED <<ovars, env, lrun, redis_kv, lapsed, stream, h, group>>

\* main, line 322: xack after the handler returned; an error is caught by
\* the inner handler
Ack ==
    /\ wk.pc = "ack"
    /\ \E store_up \in StoreOutcomes :
         /\ group' = IF store_up THEN [group EXCEPT !.pel = @ \ {CurId}] ELSE group
         /\ wk' = IF store_up THEN NextEntry ELSE [wk EXCEPT !.pc = "ack_again"]
         /\ wlog' = Append(wlog, Eff("xack", IF store_up THEN "ok" ELSE "error",
                                     None, NoTs, NoTs, NoTs))
         /\ faults' = StoreFault(store_up)
    /\ UNCHANGED <<ovars, env, lrun, redis_kv, lapsed, stream, h>>

\* main, lines 323-329: the xack of the inner handler; an error here leaves
\* the batch loop for the outer handler, and the loop reads again
AckAgain ==
    /\ wk.pc = "ack_again"
    /\ \E store_up \in StoreOutcomes :
         /\ group' = IF store_up THEN [group EXCEPT !.pel = @ \ {CurId}] ELSE group
         /\ wk' = IF store_up THEN NextEntry ELSE WorkerLocals("read", <<>>, 0)
         /\ wlog' = Append(wlog, Eff("xack", IF store_up THEN "ok" ELSE "error",
                                     None, NoTs, NoTs, NoTs))
         /\ faults' = StoreFault(store_up)
    /\ UNCHANGED <<ovars, env, lrun, redis_kv, lapsed, stream, h>>

\* MapTickSec seconds pass
WTick ==
    /\ Advance(MapTickSec)
    /\ UNCHANGED <<ovars, env, lrun, faults, stream, h, wvars>>

WNext ==
    \/ \E l \in Listeners, e \in EventIds : XAdd(l, e)
    \/ WStart
    \/ WRead
    \/ ParentGet
    \/ History
    \/ ParentPost
    \/ ParentSet
    \/ PostAttempt
    \/ MsgSet
    \/ UpdGet
    \/ UpdateAttempt
    \/ Ack
    \/ AckAgain
    \/ WTick

SpecW == WInit /\ [][WNext]_vars

\* the worker process dies while it handles an entry: its locals are gone,
\* the store keeps what was written and the entries delivered stay pending
Crash ==
    /\ wk.pos > 0
    /\ faults.crash < faults.max_crash
    /\ faults' = [faults EXCEPT !.crash = @ + 1]
    /\ wlog' = Append(wlog, Eff("crash", "ok", None, NoTs, NoTs, NoTs))
    /\ wk' = WorkerOff
    /\ UNCHANGED <<ovars, env, lrun, redis_kv, lapsed, stream, h, group>>

\* a new worker process runs main (the monitor of the launcher restarts the
\* worker)
Restart ==
    /\ wk.pc = "off"
    /\ faults.crash > 0
    /\ wk' = WorkerLocals("start", <<>>, 0)
    /\ UNCHANGED <<ovars, env, lrun, redis_kv, lapsed, faults, stream, h, group, wlog>>

\* the worker with a state store and a platform that answer every call, and
\* a worker process that can die
MaxCrashes == 1

CInit ==
    /\ env \in { m \in MasterConfigs : m.STORM_ADMIN_MASTER_CHANNEL_ID # None }
    /\ lrun = [l \in Listeners |-> "running"]
    /\ redis_kv = {}
    /\ lapsed = {}
    /\ faults = NoFaults(0, 0, MaxCrashes)
    /\ stream = <<>>
    /\ h = [l \in Listeners |-> [e \in EventIds |-> Idle]]
    /\ group = NoGroup
    /\ wk = WorkerLocals("start", <<>>, 0)
    /\ wlog = <<>>
    /\ cfg = CfgOff
    /\ sup = SupOff

\* the steps a live worker takes by itself
WorkerStep ==
    \/ WStart
    \/ WRead
    \/ ParentGet
    \/ History
    \/ ParentPost
    \/ ParentSet
    \/ PostAttempt
    \/ MsgSet
    \/ UpdGet
    \/ UpdateAttempt
    \/ Ack

CNext ==
    \/ \E l \in Listeners, e \in EventIds : XAdd(l, e)
    \/ WorkerStep
    \/ Crash
    \/ Restart
    \/ WTick

\* a live worker goes on, and a dead one is restarted
SpecC == CInit /\ [][CNext]_vars /\ WF_vars(WorkerStep) /\ WF_vars(Restart)

\* the worker with a state store that answers every call and a platform
\* that can fail every attempt of a retry loop
RInit ==
    /\ env \in { m \in MasterConfigs : m.STORM_ADMIN_MASTER_CHANNEL_ID # None }
    /\ lrun = [l \in Listeners |-> "running"]
    /\ redis_kv = {}
    /\ lapsed = {}
    /\ faults = NoFaults(0, MAX_ATTEMPTS, 0)
    /\ stream = <<>>
    /\ h = [l \in Listeners |-> [e \in EventIds |-> Idle]]
    /\ group = NoGroup
    /\ wk = WorkerLocals("start", <<>>, 0)
    /\ wlog = <<>>
    /\ cfg = CfgOff
    /\ sup = SupOff

\* the steps of the worker but AckAgain, which follows a failed xack only
RNext ==
    \/ \E l \in Listeners, e \in EventIds : XAdd(l, e)
    \/ WStart
    \/ WRead
    \/ ParentGet
    \/ History
    \/ ParentPost
    \/ ParentSet
    \/ PostAttempt
    \/ MsgSet
    \/ UpdGet
    \/ UpdateAttempt
    \/ Ack
    \/ WTick

SpecR == RInit /\ [][RNext]_vars

\* ------------------------------------------------------------------------
\* Entries that do not parse
\* ------------------------------------------------------------------------
\* a bot_id field that int() rejects
NotAnInteger == "x"

\* line 295: int(v) raises
IntRaises(v) == IntOfStr(v) = 0

\* forwarding:jobs gets an entry whose bot_id field is not an integer, from
\* a writer that is not enqueue_forward_job
XAddMalformed(l, e) ==
    /\ InJobScenario(l, e)
    /\ FilterOutcome(EventPool[e]) = "pass"
    /\ stream' = Append(stream, [JobPayload(l, EventPool[e]) EXCEPT !.bot_id = NotAnInteger])
    /\ UNCHANGED <<ovars, env, lrun, redis_kv, lapsed, faults, h, wvars>>

\* the worker with a store and a platform that answer every call
PInit ==
    /\ env \in { m \in MasterConfigs : m.STORM_ADMIN_MASTER_CHANNEL_ID # None }
    /\ lrun = [l \in Listeners |-> "running"]
    /\ redis_kv = {}
    /\ lapsed = {}
    /\ faults = NoFaults(0, 0, 0)
    /\ stream = <<>>
    /\ h = [l \in Listeners |-> [e \in EventIds |-> Idle]]
    /\ group = NoGroup
    /\ wk = WorkerLocals("start", <<>>, 0)
    /\ wlog = <<>>
    /\ cfg = CfgOff
    /\ sup = SupOff

PNext ==
    \/ RNext
    \/ \E l \in Listeners, e \in EventIds : XAddMalformed(l, e)

SpecP == PInit /\ [][PNext]_vars


\* ========================================================================
\* The channel assignment (src/src/config/multi_bot_config.py)
\* ========================================================================
\* Bounds of the assignment model: the bots configured at most, and the
\* length of channel_ids at most
MaxBots == 3
MaxInput == 2

\* int(hashlib.md5(channel_id.encode()).hexdigest(), 16), kept modulo 12:
\* every number of bots up to 4 divides 12, so the remainder by the number
\* of bots is the one of the whole digest
Md5Int(channel_id) ==
    CASE channel_id = "CMAN" -> 1
      [] channel_id = "CSTO" -> 11
      [] channel_id = "CUNK" -> 4

\* the lists channel discovery can hand over (a channel may occur twice)
InputLists == UNION { [1..n -> AdminChannels] : n \in 0..MaxInput }

Range(seq) == { seq[i] : i \in 1..Len(seq) }

\* a variant that takes every channel of the input for new
NewChannels_All(channel_ids, table) == channel_ids

\* line 130: new_channels
NewChannels(channel_ids, table) ==
    LET IsNew(ch_id) == table[ch_id] = 0 IN SelectSeq(channel_ids, IsNew)

\* line 131: existing_channels
ExistingChannels(channel_ids, table) ==
    LET IsOld(ch_id) == table[ch_id] # 0 IN SelectSeq(channel_ids, IsOld)

\* line 144: assigned_bot_id of a new channel
HashedBot(channel_id, n) == (Md5Int(channel_id) % n) + 1

\* lines 140-148: channel_assignments after the loop over new_channels
TableAfter(channel_ids, table, n) ==
    [ c \in AdminChannels |->
        IF c \in Range(NewChannels(channel_ids, table)) THEN HashedBot(c, n) ELSE table[c] ]

\* lines 151-153: bot_assignments[assigned_bot_id] raises KeyError for an
\* existing channel whose bot is not configured
RaisesKeyError(channel_ids, table, n) ==
    \E c \in Range(ExistingChannels(channel_ids, table)) : table[c] \notin 1..n

\* lines 137-153: bot_assignments, the new channels first
BotAssignments(channel_ids, table, n) ==
    LET after == TableAfter(channel_ids, table, n) IN
    [ b \in 1..n |->
        LET Mine(ch_id) == after[ch_id] = b
        IN  SelectSeq(NewChannels(channel_ids, table), Mine)
              \o SelectSeq(ExistingChannels(channel_ids, table), Mine) ]

AInit ==
    /\ env \in { m \in MasterConfigs : m.STORM_ADMIN_MASTER_CHANNEL_ID # None }
    /\ lrun = [l \in Listeners |-> "init"]
    /\ redis_kv = {}
    /\ lapsed = {}
    /\ faults = NoFaults(0, 0, 0)
    /\ stream = <<>>
    /\ h = [l \in Listeners |-> [e \in EventIds |-> Idle]]
    /\ group = NoGroup
    /\ wk = WorkerOff
    /\ wlog = <<>>
    /\ \E n \in 1..MaxBots : cfg = [CfgOff EXCEPT !.bots = n, !.status = "loaded"]
    /\ sup = SupOff

\* assign_channels_to_bots(channel_ids), with save_channel_assignments:
\* open(assignment_file, 'w') succeeds and the table is dumped, or it
\* raises and the error is logged
AssignChannels(channel_ids, open_ok) ==
    LET after == TableAfter(channel_ids, cfg.table, cfg.bots)
        raised == RaisesKeyError(channel_ids, cfg.table, cfg.bots)
    IN  /\ cfg.status # "off"
        /\ cfg' = [ cfg EXCEPT
                      !.input = channel_ids,
                      !.pre_table = cfg.table,
                      !.pre_file = cfg.file,
                      !.table = after,
                      !.file = IF ~raised /\ open_ok THEN after ELSE @,
                      !.status = IF raised THEN "raised" ELSE "returned",
                      !.map = IF raised THEN <<>>
                              ELSE BotAssignments(channel_ids, cfg.table, cfg.bots),
                      !.saved = IF raised THEN "skipped"
                                ELSE IF open_ok THEN "written" ELSE "failed" ]
        /\ UNCHANGED <<lvars, wvars, sup>>

\* a new process with n bots configured constructs the manager:
\* _load_bot_configs and _load_channel_assignments
NewManager(n) ==
    /\ cfg.status # "off"
    /\ cfg' = [ CfgOff EXCEPT !.bots = n, !.table = cfg.file, !.file = cfg.file,
                              !.status = "loaded" ]
    /\ UNCHANGED <<lvars, wvars, sup>>

ANext ==
    \/ \E channel_ids \in InputLists, open_ok \in BOOLEAN : AssignChannels(channel_ids, open_ok)
    \/ \E n \in 1..MaxBots : NewManager(n)

SpecA == AInit /\ [][ANext]_vars

\* ------------------------------------------------------------------------
\* The refresh of the listeners (listener_redis.py, update_client_lists)
\* ------------------------------------------------------------------------
\* current_bot_config.bot_id of listener l: BOT_ID of its process
BotIdOf(l) == l

\* a variant in which every listener runs discovery and mapping
RunsDiscovery_EveryBot(l) == TRUE

\* lines 170 and 184: discovery and mapping are bot 1's
RunsDiscovery(l) == BotIdOf(l) = 1

\* the listeners are started with n bots configured; each constructs its
\* manager, which loads the assignment file
UInit ==
    /\ env \in { m \in MasterConfigs : m.STORM_ADMIN_MASTER_CHANNEL_ID # None }
    /\ lrun = [l \in Listeners |-> "init"]
    /\ redis_kv = {}
    /\ lapsed = {}
    /\ faults = NoFaults(0, 0, 0)
    /\ stream = <<>>
    /\ h = [l \in Listeners |-> [e \in EventIds |-> Idle]]
    /\ group = NoGroup
    /\ wk = WorkerOff
    /\ wlog = <<>>
    /\ \E n \in 1..MaxBots : cfg = [CfgOff EXCEPT !.bots = n, !.status = "loaded"]
    /\ sup = SupOff

\* update_client_lists of listener l.  Bot 1: run_full_discovery, which
\* calls assign_channels_to_bots(channel_ids) when channels were discovered
\* and swallows its exception, then ChannelMapper.run_full_mapping, which
\* writes channel_lists.json when it succeeds.  Every bot: reload of the
\* categorizations and of the assignment file.
update_client_lists(l, channel_ids, discovered, open_ok, mapped) ==
    LET assigns == RunsDiscovery(l) /\ discovered
        after == TableAfter(channel_ids, cfg.loaded[l], cfg.bots)
        raised == RaisesKeyError(channel_ids, cfg.loaded[l], cfg.bots)
        saves == assigns /\ ~raised /\ open_ok
        file == IF saves THEN after ELSE cfg.file
    IN  /\ cfg.status # "off"
        /\ cfg' = [ cfg EXCEPT
                      !.file = file,
                      !.loaded[l] = file,
                      !.written = @ \cup (IF saves THEN {<<"channel_assignment", BotIdOf(l)>>} ELSE {})
                                   \cup (IF RunsDiscovery(l) /\ mapped
                                         THEN {<<"channel_lists", BotIdOf(l)>>} ELSE {}) ]
        /\ UNCHANGED <<lvars, wvars, sup>>

\* the launcher is started again with n bots configured: every listener
\* constructs its manager anew
Relaunch(n) ==
    /\ cfg.status # "off"
    /\ cfg.bots # n
    /\ cfg' = [cfg EXCEPT !.bots = n, !.loaded = [l \in Listeners |-> cfg.file]]
    /\ UNCHANGED <<lvars, wvars, sup>>

UNext ==
    \/ \E l \in Listeners, channel_ids \in InputLists, discovered, open_ok, mapped \in BOOLEAN :
          update_client_lists(l, channel_ids, discovered, open_ok, mapped)
    \/ \E n \in 1..MaxBots : Relaunch(n)

SpecU == UInit /\ [][UNext]_vars


\* ========================================================================
\* The launcher and its monitor (src/src/core/multi_bot_launcher.py)
\* ========================================================================
\* Bounds of the launcher model: the unexpected exits of children, and the
\* failures of multiprocessing.Process.start()
MaxExits == 2
MaxStartFaults == 1

\* Process.is_alive(): false for no process, for a process object that was
\* never started, and for a process that has exited
\* a variant of is_alive that is true of a process object that was never
\* started and of no other
IsAlive_NotStarted(s, c) == s.proc[c] = "unstarted"

IsAlive(s, c) == s.proc[c] = "alive"

\* Process(...) followed by process.start(), which starts the child or raises
ProcessStart(ok) == IF ok THEN "alive" ELSE "unstarted"

\* a variant of the guard of BotRunner.start that looks at the flag only
AlreadyRunning_FlagOnly(s, c) == s.flag[c]

\* BotRunner.start, line 119
AlreadyRunning(s, c) == s.flag[c] /\ s.proc[c] # "none" /\ IsAlive(s, c)

\* BotRunner.start
BotRunnerStart(s, c, ok) ==
    IF AlreadyRunning(s, c) THEN s
    ELSE [s EXCEPT !.flag[c] = TRUE, !.proc[c] = ProcessStart(ok),
                   !.orphans = IF s.proc[c] = "alive" THEN @ \cup {c} ELSE @]

\* the values of FORWARDER_WORKER_COUNT in os.environ (None: not set)
WorkerCountEnv == {None, "0", "1", "2", "many"}

\* start_all_bots, lines 282-285: int(os.environ.get(..., "1")), and 1 when
\* int raises
WorkerCountOf(v) ==
    IF v = None THEN IntOfStr("1")
    ELSE IF v \in {"0", "1", "2"} THEN IntOfStr(v)
    ELSE 1

\* MultiBotLauncher.start_worker(worker_count): worker_process is the one
\* process the launcher keeps; worker_count is not read
start_worker(s, worker_count, ok) ==
    IF s.proc["worker"] # "none" /\ IsAlive(s, "worker") THEN s
    ELSE [s EXCEPT !.proc["worker"] = ProcessStart(ok),
                   !.orphans = IF s.proc["worker"] = "alive" THEN @ \cup {"worker"} ELSE @]

\* the worker processes the launcher has created and not seen exit
WorkerProcesses(s) == IF IsAlive(s, "worker") THEN 1 ELSE 0

\* the monitor calls start_worker() with the default worker_count
StartOf(s, c, ok) ==
    IF c = "worker" THEN start_worker(s, 1, ok) ELSE BotRunnerStart(s, c, ok)

\* the outcomes of one Process.start()
StartOutcomes == IF sup.start_faults < MaxStartFaults THEN BOOLEAN ELSE {TRUE}

\* stop_all_bots: running is cleared, every live child gets
\* Process.terminate() and is joined for 5 seconds; the children in
\* lingering have not exited when the joins time out, which is logged
Stopped(s, lingering) ==
    [s EXCEPT !.running = FALSE,
              !.proc = [c \in Children |->
                          IF s.proc[c] = "alive" /\ c \notin lingering THEN "dead" ELSE s.proc[c]]]

SInit ==
    /\ env \in { m \in MasterConfigs : m.STORM_ADMIN_MASTER_CHANNEL_ID # None }
    /\ lrun = [l \in Listeners |-> "init"]
    /\ redis_kv = {}
    /\ lapsed = {}
    /\ faults = NoFaults(0, 0, 0)
    /\ stream = <<>>
    /\ h = [l \in Listeners |-> [e \in EventIds |-> Idle]]
    /\ group = NoGroup
    /\ wk = WorkerOff
    /\ wlog = <<>>
    /\ cfg = CfgOff
    /\ \E v \in WorkerCountEnv : sup = [SupOff EXCEPT !.worker_count_env = v]

\* run up to the start of the monitor thread: start_all_bots sets running,
\* starts the worker (a failure ends run through stop_all_bots) and then
\* every bot (a failure is logged), and the monitor thread is started
StartAll ==
    /\ sup.mon = 0 /\ ~sup.running
    /\ \E worker_ok \in StartOutcomes, bad \in SUBSET BotRunners :
         /\ Cardinality(bad) + sup.start_faults + (IF worker_ok THEN 0 ELSE 1) <= MaxStartFaults
         /\ LET s0 == [sup EXCEPT !.running = TRUE,
                                  !.start_faults = @ + Cardinality(bad) + (IF worker_ok THEN 0 ELSE 1)]
                s1 == start_worker(s0, WorkerCountOf(sup.worker_count_env), worker_ok)
                s2 == BotRunnerStart(s1, "bot1", "bot1" \notin bad)
                s3 == BotRunnerStart(s2, "bot2", "bot2" \notin bad)
            IN  sup' = IF worker_ok THEN [s3 EXCEPT !.mon = 1]
                       ELSE [Stopped(s1, {}) EXCEPT !.mon = 4]
    /\ UNCHANGED <<lvars, wvars, cfg>>

\* a child process exits on its own
ChildExit(c) ==
    /\ sup.running
    /\ sup.proc[c] = "alive"
    /\ sup.exits < MaxExits
    /\ sup' = [sup EXCEPT !.proc[c] = "dead", !.exits = @ + 1]
    /\ UNCHANGED <<lvars, wvars, cfg>>

\* monitor_bots: the check of one child; after the last child the thread
\* sleeps and tests running again
MonitorStep ==
    /\ sup.mon \in 1..Len(MonitorOrder)
    /\ LET c == MonitorOrder[sup.mon]
           last == sup.mon = Len(MonitorOrder)
           dead == IF c = "worker" THEN sup.proc[c] # "none" /\ ~IsAlive(sup, c)
                                   ELSE ~(sup.proc[c] # "none" /\ IsAlive(sup, c))
       IN  \E ok \in StartOutcomes :
             LET started == IF dead /\ sup.running THEN StartOf(sup, c, ok) ELSE sup
                 now_alive == IsAlive(started, c) /\ ~IsAlive(sup, c)
             IN  /\ (~(dead /\ sup.running)) => ok
                 /\ sup' = [started EXCEPT
                               !.start_faults = IF ok THEN @ ELSE @ + 1,
                               !.restarted = IF now_alive THEN @ \cup {c} ELSE @,
                               !.mon = IF ~last THEN sup.mon + 1
                                       ELSE IF sup.running THEN 1 ELSE Len(MonitorOrder) + 1]
    /\ UNCHANGED <<lvars, wvars, cfg>>

\* run is interrupted: stop_all_bots
StopAll ==
    /\ sup.running
    /\ \E lingering \in SUBSET { c \in Children : IsAlive(sup, c) } :
         sup' = Stopped(sup, lingering)
    /\ UNCHANGED <<lvars, wvars, cfg>>

SNext ==
    \/ StartAll
    \/ \E c \in Children : ChildExit(c)
    \/ MonitorStep
    \/ StopAll

\* the monitor thread keeps running: its sleeps end
SpecS == SInit /\ [][SNext]_vars /\ WF_vars(MonitorStep)

\* ========================================================================
\* Properties of the listeners
\* ========================================================================
Terminal(l, e) == h[l][e].pc \notin {"idle", "lookup", "append"}
Receivers(e) == { l \in Listeners : h[l][e].pc # "idle" }

\* the entries of the stream that forward event e
JobsOf(e) ==
    { i \in 1..Len(stream) :
        /\ stream[i].type = (IF EventPool[e].kind = "message" THEN "post" ELSE "update")
        /\ stream[i].source_channel_id = EventPool[e].channel
        /\ stream[i].ts = EventPool[e].ts
        /\ stream[i].text = EventPool[e].text }

\* the channel classes of the specification (section 4.3), stated on names
NameIgnored(n) == n \in IGNORED_CHANNEL_NAMES \/ n \in CHANNEL_CATEGORIZATIONS.ignored_channels
NameCategory(n) ==
    IF NameIgnored(n) THEN "ignored"
    ELSE IF EndsWith(n, S_apptbk) THEN "apptbk"
    ELSE IF EndsWith(n, S_admin) \/ EndsWith(n, S_admins)
    THEN IF n \in CHANNEL_CATEGORIZATIONS.managed_channels THEN "managed_admin"
         ELSE IF n \in CHANNEL_CATEGORIZATIONS.storm_channels THEN "storm_admin"
         ELSE "unknown"
    ELSE IF EndsWith(n, S_agent) \/ EndsWith(n, S_agents) THEN "agent"
    ELSE "unknown"
EventCategoryOf == [e \in EventIds |-> NameCategory(ChannelName(EventPool[e].channel))]
EventCategory(e) == EventCategoryOf[e]
BotOriginated(e) == EventPool[e].bot_id # None
\* an event of a forwardable channel that the bot filter lets through
ForwardableEvent(e) ==
    /\ EventCategory(e) \in Categories
    /\ BotOriginated(e) => EventCategory(e) = "apptbk"
\* the master channel configured for a category
MasterOf(c) ==
    CASE c = "managed_admin" -> env.MANAGED_ADMIN_MASTER_CHANNEL_ID
      [] c = "storm_admin" -> env.STORM_ADMIN_MASTER_CHANNEL_ID
      [] c = "agent" -> env.AGENT_MASTER_CHANNEL_ID
      [] c = "apptbk" -> env.APPTBK_MASTER_CHANNEL_ID

SameIdentityOf == [e \in EventIds |-> { f \in EventIds : ClaimKeyOf[f] = ClaimKeyOf[e] }]
SameIdentity(e) == SameIdentityOf[e]

\* C1: exactly-once enqueue.  For every (channel_id, identifier) of a
\* forwardable event whose receivers have all finished, with every claim and
\* append answered by the store and the claim key never expired, exactly one
\* job of that identity is on the stream, whatever the winner's channel-name
\* lookup returned.
C1_ExactlyOnceEnqueue ==
    \A e \in Delivered :
        LET same == SameIdentity(e)
            recv == { <<l, f>> \in Listeners \X same : h[l][f].pc # "idle" }
        IN  ( /\ \A f \in same : ForwardableEvent(f)
              /\ ClaimKeyOf[e] \notin lapsed
              /\ \A r \in recv : /\ Terminal(r[1], r[2])
                                 /\ h[r[1]][r[2]].claim # "failopen"
                                 /\ h[r[1]][r[2]].pc # "append_failed" )
            => Cardinality(UNION { JobsOf(f) : f \in same }) = 1

\* C2: every message is forwarded exactly once.  When no call has failed
\* and every receiver has finished, each delivered message of a forwardable
\* channel (a distinct source_ts) has exactly one post job, also when two
\* messages without client_msg_id share user, channel and first 50
\* characters of text.
C2_EveryMessageOnce ==
    ( /\ faults.store = 0 /\ faults.api = 0
      /\ \A l \in Listeners, e \in EventIds : h[l][e].pc = "idle" \/ Terminal(l, e) )
    => \A e \in Delivered :
          (EventPool[e].kind = "message" /\ ForwardableEvent(e))
          => Cardinality(JobsOf(e)) = 1

\* C3: while a claim key has not expired, at most one claim call for it is
\* answered true by the store, and a listener whose claim is answered false
\* drops the event without appending a job.
C3_AtMostOneClaimWins ==
    /\ \A e \in EventIds :
          ClaimKeyOf[e] \notin lapsed
          => Cardinality({ <<l, f>> \in Listeners \X SameIdentity(e) : h[l][f].claim = "won" }) <= 1
    /\ \A l \in Listeners, e \in EventIds :
          h[l][e].claim = "lost"
          => /\ h[l][e].pc = "duplicate"
             /\ \A i \in JobsOf(e) : stream[i].bot_id # StrOfInt(l)

C3_Witness ==
    \E e \in EventIds :
        /\ ClaimKeyOf[e] \notin lapsed
        /\ h[1][e].claim = "won" /\ h[1][e].pc = "enqueued"
        /\ h[2][e].claim = "lost"

\* C4: fail-open claim.  A listener whose claim call raised treats the claim
\* as won: it is never dropped as a duplicate, it goes on to the lookup and
\* the filters, and a forwardable event is enqueued by it unless a later
\* call fails.
C4_FailOpenClaim ==
    \A l \in Listeners, e \in EventIds :
        h[l][e].claim = "failopen"
        => /\ h[l][e].pc \notin {"idle", "duplicate"}
           /\ (Terminal(l, e) /\ ForwardableEvent(e) /\ h[l][e].pc \notin {"lookup_error", "append_failed"})
              => /\ h[l][e].pc = "enqueued"
                 /\ \E i \in JobsOf(e) : stream[i].bot_id = StrOfInt(l)

C4_Witness ==
    \E e \in EventIds :
        /\ h[1][e].claim = "won"
        /\ h[2][e].claim = "failopen" /\ h[2][e].pc = "enqueued"
        /\ Cardinality(JobsOf(e)) = 2


C6_CategoryPurity ==
    /\ \A i \in 1..Len(stream) :
          /\ stream[i].category \in Categories
          /\ stream[i].category = NameCategory(stream[i].source_channel_name)
          /\ MasterOf(stream[i].category) # None
          /\ stream[i].target_channel_id = MasterOf(stream[i].category)
    /\ \A c \in Categories :
          MasterOf(c) = None => \A i \in 1..Len(stream) : stream[i].category # c

C6_Witness ==
    \E i, j \in 1..Len(stream) :
        /\ stream[i].type = "post" /\ stream[j].type = "update"
        /\ stream[i].target_channel_id = "M_MANAGED"
        /\ stream[j].target_channel_id = "M_MANAGED"

\* C11: edits are reflected.  When no call has failed and every receiver
\* has finished, every delivered edit event of a message of a forwardable
\* channel, made while the claim key of an earlier edit has not expired,
\* has exactly one update job of its own, also when it is one of several
\* successive edits of one message.
C11_EveryEditOnce ==
    ( /\ faults.store = 0 /\ faults.api = 0
      /\ \A l \in Listeners, e \in EventIds : h[l][e].pc = "idle" \/ Terminal(l, e) )
    => \A e \in Delivered :
          (EventPool[e].kind = "message_changed" /\ ForwardableEvent(e) /\ ClaimKeyOf[e] \notin lapsed)
          => Cardinality(JobsOf(e)) = 1

\* C7: bot-originated filter.  When no call has failed and every receiver
\* has finished, a delivered bot-originated event has a job on the stream
\* if and only if its channel name ends in -apptbk and is not ignored.
C7_BotFilterIff ==
    ( /\ faults.store = 0 /\ faults.api = 0
      /\ \A l \in Listeners, e \in EventIds : h[l][e].pc = "idle" \/ Terminal(l, e) )
    => \A e \in Delivered :
          BotOriginated(e)
          => ( JobsOf(e) # {}
               <=> /\ EndsWith(ChannelName(EventPool[e].channel), S_apptbk)
                   /\ ~NameIgnored(ChannelName(EventPool[e].channel)) )

\* The parts of C7 that the filter alone decides: a bot-originated event is
\* enqueued only from a channel whose name ends in -apptbk and is not
\* ignored, and a user-originated event is never dropped by the bot filter.
BotFilterOnlyIf ==
    \A e \in EventIds :
        /\ (BotOriginated(e) /\ JobsOf(e) # {})
           => /\ EndsWith(ChannelName(EventPool[e].channel), S_apptbk)
              /\ ~NameIgnored(ChannelName(EventPool[e].channel))
        /\ ~BotOriginated(e) => \A l \in Listeners : h[l][e].pc # "bot_filtered"

\* ========================================================================
\* Properties of the worker
\* ========================================================================
\* the calls of wlog made while entry j was handled
Calls(j, ops) == { i \in 1..Len(wlog) : wlog[i].job = j /\ wlog[i].op \in ops }
OkCalls(j, ops) == { i \in Calls(j, ops) : wlog[i].res = "ok" }
PlatformOps == {"history", "post_parent", "post", "update"}
StoreOps == {"get_parent", "set_parent", "set_msg", "get_msg", "xack"}
\* the main loop is through with entry j: an xack was answered, or both
\* xack calls raised
Finished(j) == OkCalls(j, {"xack"}) # {} \/ Cardinality(Calls(j, {"xack"})) = 2
PostJobs == { j \in 1..Len(stream) : stream[j].type = "post" }
UpdateJobs == { j \in 1..Len(stream) : stream[j].type = "update" }
ReplyJobs == { j \in PostJobs : stream[j].is_thread_reply \in {"1", "true", "True"} }

\* C8: thread ordering.  For every post job with is_thread_reply = true
\* whose reply post succeeded, a parent post (real or synthetic) was made
\* in the master channel and recorded in ParentMap before the reply post,
\* and the reply was posted with thread_ts equal to that parent's
\* destination ts; no reply is posted without its parent.
C8_ParentBeforeReply ==
    \A j \in ReplyJobs : \A i \in OkCalls(j, {"post"}) :
        /\ wlog[i].thread # NoTs
        /\ \E p \in 1..(i - 1) :
              /\ wlog[p].op \in {"post", "post_parent"} /\ wlog[p].res = "ok"
              /\ wlog[p].channel = wlog[i].channel
              /\ wlog[p].ts = wlog[i].thread
        /\ \E s \in 1..(i - 1) :
              /\ wlog[s].op = "set_parent" /\ wlog[s].res = "ok"
              /\ wlog[s].key = MAP_PARENT_KEY(stream[j].source_channel_id, stream[j].thread_ts)
              /\ wlog[s].ts = wlog[i].thread

\* C9 (as stated): for a post job whose chat_postMessage succeeded and
\* whose handling is over, MsgMap[(source_channel_id, source_ts)] was
\* written exactly once, with the destination ts of the successful call, and
\* the entry was acknowledged exactly once, after the write.
C9_WrittenOnceAckedOnce ==
    \A j \in PostJobs : \A p \in OkCalls(j, {"post"}) :
        Finished(j)
        => /\ Cardinality(OkCalls(j, {"set_msg"})) = 1
           /\ \A s \in OkCalls(j, {"set_msg"}) :
                /\ wlog[s].key = MAP_MSG_KEY(stream[j].source_channel_id, stream[j].ts)
                /\ wlog[s].ts = wlog[p].ts
           /\ Cardinality(OkCalls(j, {"xack"})) = 1
           /\ \A a \in OkCalls(j, {"xack"}) : \E s \in OkCalls(j, {"set_msg"}) : s < a

\* C9 (amended): for a post job whose chat_postMessage succeeded (after at
\* most three failed attempts), the write of MsgMap[(source_channel_id,
\* source_ts)] is called at most once, after the successful post, with the
\* destination ts that post returned, and every xack call of the entry comes
\* after that call; the entry is acknowledged at most once; and when no
\* store call of the entry raised and its handling is over, MsgMap was
\* written exactly once and the entry acknowledged exactly once.
C9_WrittenAtMostOnce ==
    \A j \in PostJobs : \A p \in OkCalls(j, {"post"}) :
        /\ OkCalls(j, {"post"}) = {p}
        /\ \A q \in Calls(j, {"post"}) : q <= p
        /\ Cardinality(Calls(j, {"post"})) <= MAX_ATTEMPTS
        /\ Cardinality(Calls(j, {"set_msg"})) <= 1
        /\ \A s \in Calls(j, {"set_msg"}) :
              /\ p < s
              /\ wlog[s].key = MAP_MSG_KEY(stream[j].source_channel_id, stream[j].ts)
              /\ wlog[s].ts = wlog[p].ts
        /\ \A a \in Calls(j, {"xack"}) : \E s \in Calls(j, {"set_msg"}) : s < a
        /\ Cardinality(OkCalls(j, {"xack"})) <= 1
        /\ (Finished(j) /\ \A c \in Calls(j, {"set_msg", "xack"}) : wlog[c].res = "ok")
           => /\ Cardinality(OkCalls(j, {"set_msg"})) = 1
              /\ Cardinality(OkCalls(j, {"xack"})) = 1

C9_Witness ==
    \E j \in PostJobs :
        /\ \E q \in Calls(j, {"post"}) : wlog[q].res \in {"retry_after", "retryable"}
        /\ OkCalls(j, {"post"}) # {}
        /\ OkCalls(j, {"set_msg"}) # {}
        /\ OkCalls(j, {"xack"}) # {}
        /\ RedisGet(MAP_MSG_KEY(stream[j].source_channel_id, stream[j].ts)) # NoTs

Attempts(j, op) == Calls(j, {op})
AttemptsUpTo(j, op, i) == { k \in Attempts(j, op) : k <= i }
\* the retry loop of entry j for call op is still running after attempt i
LoopGoesOn(i) ==
    \/ \E k \in Attempts(wlog[i].job, wlog[i].op) : k > i
    \/ (wk.pos > 0 /\ CurId = wlog[i].job /\ wk.pc = wlog[i].op)
\* the handler of entry j has returned to the main loop
Returned(j) == Calls(j, {"xack"}) # {} \/ (wk.pos > 0 /\ CurId = j /\ wk.pc = "ack")
RetryOps == {"post", "update"}
RetryCalls == { i \in 1..Len(wlog) : wlog[i].op \in RetryOps }

\* C12: Retry-After.  A chat_postMessage or chat_update attempt that fails
\* with a Retry-After response is always followed by another attempt of
\* that call (after a sleep of Retry-After seconds).
C12_RetryAfterRetried ==
    \A i \in RetryCalls :
        wlog[i].res = "retry_after"
        => /\ wlog[i].sleep = RETRY_AFTER_SEC
           /\ LoopGoesOn(i)

\* the backoff of the specification: 1 s, 2 s, 4 s
BackoffSec(k) == CASE k = 1 -> 1 [] k = 2 -> 2 [] k = 3 -> 4 [] OTHER -> 0

\* C13: backoff budget.  A call is attempted at most 4 times for a job.  An
\* attempt that fails with a retryable error code and no Retry-After is,
\* when it is not the 4th attempt, followed by a sleep of 1 s, 2 s, 4 s
\* (for the 1st, 2nd, 3rd such failure) and another attempt; when it is the
\* 4th attempt the worker gives up: no sleep, no further attempt, no map
\* write, and the entry is acked.
C13_BackoffBudget ==
    \A i \in RetryCalls :
        LET j == wlog[i].job
            tried == Cardinality(AttemptsUpTo(j, wlog[i].op, i))
            nth == Cardinality({ k \in AttemptsUpTo(j, wlog[i].op, i) : wlog[k].res = "retryable" })
        IN  /\ tried <= MAX_ATTEMPTS
            /\ wlog[i].res = "retryable"
               => IF tried < MAX_ATTEMPTS
                  THEN wlog[i].sleep = BackoffSec(nth) /\ LoopGoesOn(i)
                  ELSE /\ wlog[i].sleep = 0
                       /\ ~LoopGoesOn(i)
                       /\ Returned(j)
                       /\ Calls(j, {"set_msg"}) = {}
                       /\ Finished(j) => (OkCalls(j, {"xack"}) # {} /\ j \notin group.pel)

C13_Witness ==
    \E j \in PostJobs :
        /\ Cardinality({ k \in Attempts(j, "post") : wlog[k].res = "retryable" }) = MAX_ATTEMPTS
        /\ OkCalls(j, {"xack"}) # {}
        /\ j \notin group.pel

\* C14: permanent failure.  An attempt that fails with an error that
\* carries no Retry-After and is not retryable is the last attempt of the
\* call (the only one when it is the first): the handler returns, no
\* MsgMap entry is written for the job, and the entry is acknowledged and
\* leaves the pending list as soon as an xack call is answered.
C14_PermanentFailure ==
    \A i \in RetryCalls :
        wlog[i].res = "fatal"
        => LET j == wlog[i].job IN
           /\ wlog[i].sleep = 0
           /\ ~LoopGoesOn(i)
           /\ \A k \in Calls(j, PlatformOps) : k <= i
           /\ (\A k \in Attempts(j, wlog[i].op) : wlog[k].res = "fatal")
              => Cardinality(Attempts(j, wlog[i].op)) = 1
           /\ Calls(j, {"set_msg"}) = {}
           /\ Returned(j)
           /\ (\E a \in Calls(j, {"xack"}) : wlog[a].res = "ok") => j \notin group.pel
           /\ (Finished(j) /\ faults.store = 0) => OkCalls(j, {"xack"}) # {}

C14_Witness ==
    \E j \in PostJobs :
        /\ Cardinality(Attempts(j, "post")) = 1
        /\ \E i \in Attempts(j, "post") : wlog[i].res = "fatal"
        /\ OkCalls(j, {"xack"}) # {}
        /\ j \notin group.pel
        /\ ~KeyHeld(MAP_MSG_KEY(stream[j].source_channel_id, stream[j].ts))

\* the entries that a scenario can put on the stream
JobIds == 1..2
\* the worker died while it handled entry j
CrashedAt(j) == \E c \in 1..Len(wlog) : wlog[c].op = "crash" /\ wlog[c].job = j
\* entry j was handled again after that
Replayed(j) ==
    \E c, k \in 1..Len(wlog) :
        wlog[c].op = "crash" /\ wlog[c].job = j /\ c < k /\ wlog[k].job = j

\* C15: crash replay.  An entry that was delivered to a worker which
\* crashed before acknowledging it is eventually delivered again and
\* processed by the restarted worker.
C15_CrashReplay ==
    \A j \in JobIds : (CrashedAt(j) /\ j \in group.pel) ~> Replayed(j)

\* The part of C15 that holds: the entry a crashed worker was handling
\* stays in the pending list.
CrashLeavesPending ==
    \A j \in JobIds : (CrashedAt(j) /\ ~Replayed(j)) => j \in group.pel

\* the positions of wlog where a handling of entry j begins
HandlingStarts(j) ==
    { i \in 1..Len(wlog) : wlog[i].job = j /\ (i = 1 \/ wlog[i - 1].job # j) }
\* the worker waits for new entries and every entry was delivered or skipped
WorkerCaughtUp == group.exists /\ wk.pc = "read" /\ group.last = Len(stream)

StreamPositions(e) ==
    { i \in 1..Len(stream) : JobForwards(stream[i], e) }

\* C19: per-channel order.  Every listener receives m1 before m2; when
\* both jobs are in forwarding:jobs, the job of m1 was appended before the
\* job of m2 (the sequential worker then posts them in this order).
C19_PerChannelOrder ==
    \A i \in StreamPositions(FirstMessage), j \in StreamPositions(SecondMessage) : i < j

\* ========================================================================
\* Properties of the channel assignment
\* ========================================================================
Called == cfg.status \in {"returned", "raised"}

C18_ReturnsWithExisting ==
    Called
    => /\ cfg.status = "returned"
       /\ cfg.saved # "skipped"
       /\ cfg.saved = "written" => cfg.file = cfg.table
       /\ \A c \in Range(cfg.input) :
             cfg.pre_table[c] # 0
             => /\ cfg.table[c] = cfg.pre_table[c]
                /\ c \in Range(cfg.map[cfg.pre_table[c]])

\* ========================================================================
\* Properties of the launcher
\* ========================================================================
\* C20: while the launcher is running, a child process (listener or worker)
\* that has exited is eventually alive again, restarted by the monitor.
C20_DeadChildRestarted ==
    \A c \in Children :
        (sup.running /\ sup.proc[c] = "dead") ~> (sup.proc[c] = "alive" \/ ~sup.running)

C20_Witness ==
    /\ sup.running
    /\ sup.exits = MaxExits
    /\ {"bot2", "worker"} \subseteq sup.restarted
    /\ \A c \in Children : sup.proc[c] = "alive"

\* run has started the children and stop_all_bots has returned
StopReturned == ~sup.running /\ sup.mon # 0

\* C21: shutdown.  When stop_all_bots has returned, no listener process
\* and no worker process is alive.
C21_NoChildAliveAfterStop ==
    StopReturned => \A c \in Children : ~IsAlive(sup, c)

Max(a, b) == IF a >= b THEN a ELSE b

\* start_all_bots has returned, no start has failed and no child has exited
AllStarted ==
    sup.running /\ sup.mon # 0 /\ sup.start_faults = 0 /\ sup.exits = 0

\* C22: the launcher has started one listener process for every configured
\* bot and max(1, FORWARDER_WORKER_COUNT) worker processes.
C22_ProcessesStarted ==
    AllStarted
    => /\ \A b \in BotRunners : IsAlive(sup, b)
       /\ WorkerProcesses(sup) = Max(1, WorkerCountOf(sup.worker_count_env))

\* the part of C22 that holds: one listener per bot and one worker
OneWorkerStarted ==
    AllStarted
    => /\ \A b \in BotRunners : IsAlive(sup, b)
       /\ WorkerProcesses(sup) = 1

\* ========================================================================
\* Who calls the platform
\* ========================================================================
\* the calls that write to the chat platform
WriteOps == {"post", "post_parent", "update"}

\* entry j of forwarding:jobs has been delivered to the group
DeliveredToGroup(j) ==
    group.exists /\ j \in 1..Len(stream) /\ j > group.base /\ j <= group.last

\* C23: every chat_postMessage and chat_update call is issued by the
\* worker while it handles an entry read from forwarding:jobs, with the
\* client of that entry's bot; the listeners issue none.
C23_OnlyWorkerPosts ==
    \A i \in 1..Len(wlog) :
        wlog[i].op \in WriteOps
        => /\ DeliveredToGroup(wlog[i].job)
           /\ wlog[i].client = get_client_for_bot(parse_stream_message(stream[wlog[i].job]).bot_id)

C23_Witness ==
    /\ Len(stream) = 2
    /\ \E i, j \in 1..Len(wlog) :
          /\ wlog[i].op = "post" /\ wlog[i].res = "ok"
          /\ wlog[j].op = "update" /\ wlog[j].res = "ok"

\* ========================================================================
\* Thread parents
\* ========================================================================
\* the worker is resolving the parent of a reply, or posting the reply
ResolvingReply ==
    /\ wk.pos > 0
    /\ wk.pc \in {"history", "parent_post", "parent_set", "post"}
    /\ CurJob.type = "post"
    /\ CurJob.is_thread_reply /\ CurJob.thread_ts # None

\* what MsgMap holds for the parent of the reply in hand
MsgMapOfParent == RedisGet(MAP_MSG_KEY(CurJob.source_channel_id, CurJob.thread_ts))

\* C24: when MsgMap holds (source_channel_id, thread_ts) of a reply, the
\* parent resolution takes the destination ts from it: the worker fetches
\* no history and posts no synthetic parent, and the reply is posted with
\* thread_ts equal to the ts MsgMap holds.
C24_ParentFromMsgMap ==
    (ResolvingReply /\ MsgMapOfParent # NoTs)
    => (wk.pc = "post" /\ wk.parent = MsgMapOfParent)

\* the key of ParentMap for the thread of the reply in hand
ParentMapKeyOfThread == MAP_PARENT_KEY(CurJob.source_channel_id, CurJob.thread_ts)

\* the worker has posted a synthetic parent for the reply in hand and the
\* store has taken the write that followed
SynthesizedAndStored ==
    /\ ResolvingReply /\ wk.pc = "post"
    /\ OkCalls(CurId, {"post_parent"}) # {}
    /\ OkCalls(CurId, {"set_parent"}) # {}

\* the reply jobs of one thread
SameThread(i, j) ==
    /\ stream[i].source_channel_id = stream[j].source_channel_id
    /\ stream[i].thread_ts = stream[j].thread_ts

NoStoreError == \A i \in 1..Len(wlog) : wlog[i].op \in StoreOps => wlog[i].res = "ok"

\* C25: after the worker has posted a synthetic parent for a reply with
\* thread_ts = P in channel c, ParentMap holds the synthetic parent's
\* destination ts under (c, P) until the entry expires, whatever message
\* the history call returned; and while no store call fails and no key has
\* expired, at most one synthetic parent is posted for the replies of one
\* thread.
C25_ParentMapKeyedByThread ==
    /\ SynthesizedAndStored
       => (ParentMapKeyOfThread \in lapsed \/ RedisGet(ParentMapKeyOfThread) = wk.parent)
    /\ (NoStoreError /\ lapsed = {})
       => \A i, j \in ReplyJobs :
             (i # j /\ SameThread(i, j))
             => OkCalls(i, {"post_parent"}) = {} \/ OkCalls(j, {"post_parent"}) = {}

\* the platform calls of ensure_parent_posted
ParentPathOps == {"history", "post_parent"}

\* the answers the retry rules of lines 234-240 retry
RetriedAnswers == {"retry_after", "retryable"}

\* C26: the thread-parent path is under the rate-limit policy.  When the
\* history fetch or the synthetic-parent post of a job is answered with
\* Retry-After or a retryable error, the next call the worker makes for the
\* job is the same call again.
C26_ParentPathRetried ==
    \A i \in 1..(Len(wlog) - 1) :
        (/\ wlog[i].op \in ParentPathOps
         /\ wlog[i].res \in RetriedAnswers
         /\ wlog[i + 1].job = wlog[i].job)
        => wlog[i + 1].op = wlog[i].op

\* ========================================================================
\* Writers of the files
\* ========================================================================
\* C27: single writer.  The assignment file and the categorization file
\* are written by the listener of bot 1 only; the other listeners reload
\* them.
C27_SingleWriter ==
    \A w \in cfg.written : w[2] = 1

C27_Witness ==
    /\ cfg.written = {<<"channel_assignment", 1>>, <<"channel_lists", 1>>}
    /\ cfg.file # NoTable
    /\ \E l \in Listeners : BotIdOf(l) # 1 /\ cfg.loaded[l] = cfg.file

\* ========================================================================
\* Classification
\* ========================================================================
\* the outcome of the precedence for a channel name, rule by rule
PrecedenceOf(n) ==
    CASE n \in IGNORED_CHANNEL_NAMES -> "drop"
      [] n \notin IGNORED_CHANNEL_NAMES /\ n \in CHANNEL_CATEGORIZATIONS.ignored_channels -> "drop"
      [] OTHER ->
         IF EndsWith(n, S_apptbk) THEN "apptbk"
         ELSE IF EndsWith(n, S_admin) \/ EndsWith(n, S_admins)
         THEN (IF n \in CHANNEL_CATEGORIZATIONS.managed_channels THEN "managed_admin"
               ELSE IF n \in CHANNEL_CATEGORIZATIONS.storm_channels THEN "storm_admin"
               ELSE "drop")
         ELSE IF EndsWith(n, S_agent) \/ EndsWith(n, S_agents) THEN "agent"
         ELSE "drop"

PrecedenceOfEvent == [e \in EventIds |-> PrecedenceOf(ChannelName(EventPool[e].channel))]

\* C28: classification precedence.  Every job on the stream carries the
\* category the precedence gives the name of its source channel, and an
\* event whose channel name the precedence drops (ignored, also with a
\* forwardable suffix; -admin in neither set; no known suffix) has no job.
C28_ClassificationPrecedence ==
    /\ \A i \in 1..Len(stream) :
          stream[i].category = PrecedenceOf(stream[i].source_channel_name)
    /\ \A e \in EventIds :
          /\ PrecedenceOfEvent[e] = "drop" => JobsOf(e) = {}
          /\ \A l \in Listeners :
                h[l][e].pc \in {"append", "enqueued", "append_failed"}
                => PrecedenceOfEvent[e] = classify_channel(ChannelName(EventPool[e].channel))

C28_Witness ==
    \E e \in EventIds :
        /\ EventPool[e].channel = "CUNK"
        /\ h[1][e].pc = "unknown" /\ h[1][e].claim = "won"
        /\ h[2][e].pc = "duplicate"
        /\ stream = <<>>

\* ========================================================================
\* Identifiers
\* ========================================================================
\* the user id of an event, or its bot id when it has no user
UserOrBot(ev) == IF ev.user # None THEN ev.user ELSE ev.bot_id

\* the triple the derived identifier is specified on
Triple(ev) == << ev.channel, UserOrBot(ev), Slice(ev.text, SIG_TEXT_LEN) >>

\* the claim keys of the store
FcfsKeys == { rec.key : rec \in { x \in redis_kv : x.key[1] = "fcfs" } }

\* C29: identifier safety.  The identifier of an event is its client_msg_id
\* when it has one; otherwise two events equal on (channel_id, user-or-bot
\* id, first 50 characters of text) have the same identifier whatever their
\* ts, two bot-originated events with different bot ids that listeners have
\* received have different identifiers, and the listeners that receive an
\* event build one claim key for it.
C29_IdentifierSafety ==
    /\ \A e \in EventIds :
          EventPool[e].client_msg_id # None
          => IdentifierOf[e] = <<"id", EventPool[e].client_msg_id>>
    /\ \A e, f \in EventIds :
          (/\ EventPool[e].client_msg_id = None /\ EventPool[f].client_msg_id = None
           /\ Triple(EventPool[e]) = Triple(EventPool[f]))
          => IdentifierOf[e] = IdentifierOf[f]
    /\ \A e, f \in Delivered :
          (/\ EventPool[e].client_msg_id = None /\ EventPool[f].client_msg_id = None
           /\ EventPool[e].bot_id # None /\ EventPool[f].bot_id # None
           /\ EventPool[e].bot_id # EventPool[f].bot_id)
          => IdentifierOf[e] # IdentifierOf[f]
    /\ FcfsKeys \subseteq { ClaimKeyOf[e] : e \in Delivered }

\* the parts of C29 that hold: client_msg_id first, the digest a function
\* of (channel_id, user or the word bot, first 50 characters of text), one
\* claim key for an event at every listener
IdentifierOfSignature ==
    /\ \A e \in EventIds :
          EventPool[e].client_msg_id # None
          => IdentifierOf[e] = <<"id", EventPool[e].client_msg_id>>
    /\ \A e, f \in EventIds :
          (/\ EventPool[e].client_msg_id = None /\ EventPool[f].client_msg_id = None
           /\ EventSignature(EventPool[e]) = EventSignature(EventPool[f]))
          => IdentifierOf[e] = IdentifierOf[f]
    /\ FcfsKeys \subseteq { ClaimKeyOf[e] : e \in Delivered }

\* ========================================================================
\* Entries that do not parse
\* ========================================================================
\* the entries of the stream with a field that cannot be parsed
MalformedJobs == { j \in 1..Len(stream) : IntRaises(stream[j].bot_id) }

\* C30: a stream entry whose fields cannot be parsed is acknowledged and
\* dropped: the worker makes no platform call for it and writes no map
\* entry, and its handling ends with the acknowledgement.
C30_MalformedDropped ==
    \A j \in MalformedJobs :
        /\ Calls(j, PlatformOps \cup {"set_parent", "set_msg"}) = {}
        /\ \A i \in Calls(j, StoreOps) : wlog[i].op = "xack"

\* the part of C30 that holds: the entry is acknowledged once its handling
\* is over, and it is handled with the client of bot 1
MalformedAcked ==
    \A j \in MalformedJobs :
        /\ \A i \in Calls(j, PlatformOps) : wlog[i].client = 1
        /\ (DeliveredToGroup(j) /\ (wk.pos = 0 \/ CurId > j)) => OkCalls(j, {"xack"}) # {}

\* ------------------------------------------------------------------------
\* Master channels that the listeners are members of.  The worker posts into
\* a master channel through the bots' clients, so the bots are members of it
\* and the platform delivers its messages to the listeners like those of any
\* other channel.  The name of a master channel is the workspace's: the
\* environment gives the ids only (lines 100-103).
\* ------------------------------------------------------------------------
\* the masters are CIGN (ccdocs-apptbk, in the hard-coded list) and CIGS
\* (g-agents, in the ignored set); or CAPP (e-apptbk) and CAGT (d-agent),
\* which are in neither
MasterConfigsInWorkspace ==
    { [ AGENT_MASTER_CHANNEL_ID |-> "CIGS", APPTBK_MASTER_CHANNEL_ID |-> "CIGN",
        MANAGED_ADMIN_MASTER_CHANNEL_ID |-> "M_MANAGED", STORM_ADMIN_MASTER_CHANNEL_ID |-> "M_STORM" ],
      [ AGENT_MASTER_CHANNEL_ID |-> "CAGT", APPTBK_MASTER_CHANNEL_ID |-> "CAPP",
        MANAGED_ADMIN_MASTER_CHANNEL_ID |-> "M_MANAGED", STORM_ADMIN_MASTER_CHANNEL_ID |-> "M_STORM" ] }

MInit ==
    /\ env \in MasterConfigsInWorkspace
    /\ lrun = [l \in Listeners |-> "init"]
    /\ redis_kv = {}
    /\ lapsed = {}
    /\ faults = NoFaults(0, 0, 0)
    /\ stream = <<>>
    /\ h = [l \in Listeners |-> [e \in EventIds |-> Idle]]
    /\ group = NoGroup
    /\ wk = WorkerOff
    /\ wlog = <<>>
    /\ cfg = CfgOff
    /\ sup = SupOff

SpecM == MInit /\ [][Next]_vars

\* ------------------------------------------------------------------------
\* Properties of the listeners when a master channel delivers events
\* ------------------------------------------------------------------------
MasterIds ==
    { env.AGENT_MASTER_CHANNEL_ID, env.APPTBK_MASTER_CHANNEL_ID,
      env.MANAGED_ADMIN_MASTER_CHANNEL_ID, env.STORM_ADMIN_MASTER_CHANNEL_ID }

\* C31: no forwarding loop: no job of the stream has one of the four
\* configured master channels as its source channel, bot-originated posts in
\* a master channel whose name ends in -apptbk included.
C31_NoForwardingLoop ==
    \A i \in 1..Len(stream) : stream[i].source_channel_id \notin MasterIds

\* the part that holds: a master channel whose name is in the hard-coded
\* list or in the ignored set is never the source of a job
C31_IgnoredNameNeverEnqueued ==
    \A i \in 1..Len(stream) : ~NameIgnored(ChannelName(stream[i].source_channel_id))

\* a post that came from a bot in the apptbk master is enqueued for that master
C31_BotPostForwardedAgain ==
    \E i \in 1..Len(stream) :
        /\ stream[i].source_channel_id = env.APPTBK_MASTER_CHANNEL_ID
        /\ stream[i].target_channel_id = env.APPTBK_MASTER_CHANNEL_ID
        /\ \E e \in EventIds : EventPool[e].bot_id # None /\ EventPool[e].ts = stream[i].ts

\* ------------------------------------------------------------------------
\* A message and a later edit of it, delivered to every listener in that
\* order.  A listener runs each handler on a thread of its own, so the
\* handler of the edit may overtake that of the message.
\* ------------------------------------------------------------------------
\* the message (ts 101 of CMAN) and the message_changed event of it
EditedMessage == 1
EditOfMessage == 7

\* no listener has started on the edit while the message has not reached it
ReceivedPostFirst ==
    \A l \in Listeners :
        h[l][EditOfMessage].pc # "idle" => h[l][EditedMessage].pc # "idle"

\* the platform delivers the message and then its edit to listener l, which
\* starts the handler of each
ReceivePostThenEdit(l, e) ==
    /\ e \in {EditedMessage, EditOfMessage}
    /\ HandleClaim(l, e)
    /\ ReceivedPostFirst'

EInit ==
    /\ env \in MasterConfigs
    /\ lrun = [l \in Listeners |-> "init"]
    /\ redis_kv = {}
    /\ lapsed = {}
    /\ faults = NoFaults(0, 0, 0)
    /\ stream = <<>>
    /\ h = [l \in Listeners |-> [e \in EventIds |-> Idle]]
    /\ group = NoGroup
    /\ wk = WorkerOff
    /\ wlog = <<>>
    /\ cfg = CfgOff
    /\ sup = SupOff

ENext ==
    \/ \E l \in Listeners : Main(l)
    \/ \E l \in Listeners, e \in EventIds : ReceivePostThenEdit(l, e)
    \/ \E l \in Listeners, e \in EventIds : HandleLookup(l, e)
    \/ \E l \in Listeners, e \in EventIds : HandleAppend(l, e)
    \/ Tick

SpecE == EInit /\ [][ENext]_vars

\* ------------------------------------------------------------------------
\* Properties of the order of a message and its edit
\* ------------------------------------------------------------------------
IsJobOf(j, type, e) ==
    /\ j.type = type
    /\ j.source_channel_id = EventPool[e].channel
    /\ j.ts = EventPool[e].ts

\* C32: post before edit: the update job of a message is never appended to
\* the stream before the post job of that message, whichever listener
\* claimed the message and whichever claimed the edit.
C32_PostBeforeEdit ==
    \A i \in 1..Len(stream) :
        IsJobOf(stream[i], "update", EditOfMessage) =>
            \E k \in 1..(i - 1) : IsJobOf(stream[k], "post", EditedMessage)

\* both jobs are in the stream, the update first, appended by different
\* listeners with no call failing
C32_UpdateOvertakesPost ==
    \E i, k \in 1..Len(stream) :
        /\ i < k
        /\ IsJobOf(stream[i], "update", EditOfMessage)
        /\ IsJobOf(stream[k], "post", EditedMessage)
        /\ stream[i].bot_id # stream[k].bot_id

\* the worker's side of it: the update job was handled first, found no
\* MsgMap entry and issued no chat_update; the post job then succeeded, so
\* the master keeps the text the message had before the edit
C32_EditLostAtWorker ==
    \E i, k \in 1..Len(stream) :
        /\ i < k
        /\ IsJobOf(stream[i], "update", EditOfMessage)
        /\ IsJobOf(stream[k], "post", EditedMessage)
        /\ Finished(i) /\ Finished(k)
        /\ Calls(i, {"update"}) = {}
        /\ OkCalls(k, {"post"}) # {}
        /\ \A n \in 1..Len(wlog) : wlog[n].res = "ok"

\* ------------------------------------------------------------------------
\* The worker when both xack calls of an entry fail
\* ------------------------------------------------------------------------
\* main, lines 322 and 326: the xack calls main makes for one entry, the
\* second one in the handler of the inner try
XACK_CALLS == 2

\* the store may fail as often as it takes for both xack calls of an entry
\* to raise; the platform answers every call
XInit ==
    /\ env \in { m \in MasterConfigs : m.STORM_ADMIN_MASTER_CHANNEL_ID # None }
    /\ lrun = [l \in Listeners |-> "running"]
    /\ redis_kv = {}
    /\ lapsed = {}
    /\ faults = NoFaults(XACK_CALLS, 0, 0)
    /\ stream = <<>>
    /\ h = [l \in Listeners |-> [e \in EventIds |-> Idle]]
    /\ group = NoGroup
    /\ wk = WorkerLocals("start", <<>>, 0)
    /\ wlog = <<>>
    /\ cfg = CfgOff
    /\ sup = SupOff

SpecX == XInit /\ [][WNext]_vars

\* ------------------------------------------------------------------------
\* Properties of the batch loop
\* ------------------------------------------------------------------------
AnyOp == PlatformOps \cup StoreOps

\* C33: every entry returned by a consumer-group read is handled and
\* acknowledged before the worker issues its next read: when the worker is
\* about to read, no delivered entry is left in the pending list, a batch
\* loop interrupted by a state-store error included.
C33_BatchDoneBeforeNextRead ==
    wk.pc = "read" =>
        \A j \in 1..Len(stream) :
            DeliveredToGroup(j) => (Calls(j, {"xack"}) # {} /\ j \notin group.pel)

\* the worker is about to read again while an entry of the last batch is
\* pending and no call at all was made for it
C33_EntryLeftUnprocessed ==
    /\ wk.pc = "read"
    /\ \E j \in 1..Len(stream) :
         /\ DeliveredToGroup(j)
         /\ j \in group.pel
         /\ Calls(j, AnyOp) = {}

\* the part that holds: an entry whose xack was answered is out of the
\* pending list, and an entry stays pending only after both xack calls of an
\* entry of its batch raised
C33_PendingOnlyAfterFailedAcks ==
    wk.pc = "read" =>
        \A j \in 1..Len(stream) :
            /\ OkCalls(j, {"xack"}) # {} => j \notin group.pel
            /\ (DeliveredToGroup(j) /\ j \in group.pel) =>
                  \E k \in 1..j : Cardinality(Calls(k, {"xack"}) \ OkCalls(k, {"xack"})) = XACK_CALLS

\* ------------------------------------------------------------------------
\* The monitor thread and stop_all_bots, step by step.  monitor_bots runs on
\* a thread of its own (run, lines 376-381) and stop_all_bots on the main
\* thread, so the steps of the two interleave: between the test of the
\* monitor (lines 308 and 317) and its start call (lines 311 and 320), and
\* between the assignment to running (line 339) and the terminate calls.
\* ------------------------------------------------------------------------
\* the test of lines 308 and 317 without 'and self.running'
ChildDead(s, c) ==
    IF c = "worker" THEN s.proc[c] # "none" /\ ~IsAlive(s, c)
    ELSE ~(s.proc[c] # "none" /\ IsAlive(s, c))

\* the monitor goes on to the next child; after the last one it sleeps and
\* tests running
MonitorAdvance(s) ==
    [s EXCEPT !.mon = IF s.mon < Len(MonitorOrder) THEN s.mon + 1
                      ELSE IF s.running THEN 1 ELSE Len(MonitorOrder) + 1]

\* monitor_bots, lines 308 and 317: the test of one child
MonitorTest ==
    /\ sup.mon \in 1..Len(MonitorOrder)
    /\ ~sup.decided
    /\ sup' = IF ChildDead(sup, MonitorOrder[sup.mon]) /\ sup.running
              THEN [sup EXCEPT !.decided = TRUE]
              ELSE MonitorAdvance(sup)
    /\ UNCHANGED <<lvars, wvars, cfg>>

\* monitor_bots, lines 309-314 and 318-323: the start call that follows a
\* test that passed
MonitorRestart ==
    /\ sup.mon \in 1..Len(MonitorOrder)
    /\ sup.decided
    /\ LET c == MonitorOrder[sup.mon] IN
       \E ok \in StartOutcomes :
         LET started == StartOf(sup, c, ok)
             now_alive == started # sup /\ started.proc[c] = "alive"
         IN  sup' = MonitorAdvance(
                      [started EXCEPT
                         !.decided = FALSE,
                         !.start_faults = IF ok THEN @ ELSE @ + 1,
                         !.restarted = IF now_alive THEN @ \cup {c} ELSE @,
                         !.late = IF now_alive /\ ~sup.running THEN @ \cup {c} ELSE @])
    /\ UNCHANGED <<lvars, wvars, cfg>>

\* stop_all_bots, line 339
StopClear ==
    /\ sup.running
    /\ sup.stop = "no"
    /\ sup' = [sup EXCEPT !.running = FALSE, !.stop = "cleared"]
    /\ UNCHANGED <<lvars, wvars, cfg>>

\* stop_all_bots, lines 341-364: the terminate calls and the joins
StopTerminate ==
    /\ sup.stop = "cleared"
    /\ \E lingering \in SUBSET { c \in Children : IsAlive(sup, c) } :
         sup' = [Stopped(sup, lingering) EXCEPT !.stop = "returned"]
    /\ UNCHANGED <<lvars, wvars, cfg>>

\* the launcher of a deployment that does not set FORWARDER_WORKER_COUNT
TInit ==
    /\ env \in { m \in MasterConfigs : m.STORM_ADMIN_MASTER_CHANNEL_ID # None }
    /\ lrun = [l \in Listeners |-> "init"]
    /\ redis_kv = {}
    /\ lapsed = {}
    /\ faults = NoFaults(0, 0, 0)
    /\ stream = <<>>
    /\ h = [l \in Listeners |-> [e \in EventIds |-> Idle]]
    /\ group = NoGroup
    /\ wk = WorkerOff
    /\ wlog = <<>>
    /\ cfg = CfgOff
    /\ sup = SupOff

TNext ==
    \/ StartAll
    \/ \E c \in Children : ChildExit(c)
    \/ MonitorTest
    \/ MonitorRestart
    \/ StopClear
    \/ StopTerminate

SpecT == TInit /\ [][TNext]_vars

\* ------------------------------------------------------------------------
\* Properties of the monitor thread against stop_all_bots
\* ------------------------------------------------------------------------
\* C34: once stop_all_bots has set running to false the monitor thread
\* starts no listener and no worker process, for every interleaving of the
\* monitor loop with stop_all_bots: no child is started after shutdown began
\* (and so none is alive after stop_all_bots returned because of a late
\* restart).
C34_NoStartAfterShutdown == sup.late = {}

\* stop_all_bots has returned with every child it saw stopped, and a child
\* the monitor started afterwards is alive
C34_LateChildAlive ==
    /\ sup.stop = "returned"
    /\ \E c \in sup.late : sup.proc[c] = "alive"

\* the part that holds: the test of the monitor reads running, so at most
\* the one start call that was under way when running was cleared is made
C34_OneLateStartAtMost ==
    Cardinality(sup.late) <= 1

\* the processes of child c that are alive: the one the launcher holds and
\* one it has let go of while it ran
LiveProcesses(c) ==
    (IF sup.proc[c] = "alive" THEN 1 ELSE 0) + (IF c \in sup.orphans THEN 1 ELSE 0)

\* C36: at every moment there is at most one live listener process per bot
\* identity and at most one live worker process, across startup, monitor
\* restarts and shutdown: no start replaces a process that is alive.
C36_OneLiveProcessPerIdentity ==
    /\ sup.orphans = {}
    /\ \A c \in Children : LiveProcesses(c) <= 1

\* a listener and the worker have exited and have been started again by the
\* monitor, one of them while stop_all_bots was under way, and each has one
\* live process
C36_Witness ==
    /\ sup.exits = MaxExits
    /\ \E b \in BotRunners : b \in sup.restarted /\ LiveProcesses(b) = 1
    /\ "worker" \in sup.restarted /\ LiveProcesses("worker") = 1
    /\ sup.late # {}

\* ========================================================================
\* Termination of the handling of a job
\* ========================================================================
\* every chat_postMessage call made for entry j: those of the retry loop
\* and the one of ensure_parent_posted
PostMessageCalls(j) == Calls(j, {"post", "post_parent"})

\* the statement as given: chat_postMessage is invoked at most 4 times per
\* handling of a post job, chat_update at most 4 times per handling of an
\* update job
C35_AtMostFourCalls ==
    \A j \in 1..Len(stream) :
        /\ Cardinality(PostMessageCalls(j)) <= MAX_ATTEMPTS
        /\ Cardinality(Calls(j, {"update"})) <= MAX_ATTEMPTS

\* C35: handling of a single job terminates.  The retry loop invokes
\* chat_postMessage (post job) or chat_update (update job) at most 4 times,
\* whatever mix of Retry-After responses and retryable error codes the
\* platform returns; a reply whose parent is synthesized costs one more
\* chat_postMessage call, made once and outside the loop, so at most 5.  The
\* loop counter equals the calls made so far and stays below 4 while the loop
\* runs; after the 4th call the loop is over, after a 4th failure the
\* handler has returned, and an entry the main loop is through with is acked.
C35_HandlingTerminates ==
    \A j \in 1..Len(stream) :
        /\ Cardinality(Calls(j, {"post"})) <= MAX_ATTEMPTS
        /\ Cardinality(Calls(j, {"update"})) <= MAX_ATTEMPTS
        /\ Cardinality(Calls(j, {"post_parent"})) <= 1
        /\ Cardinality(PostMessageCalls(j)) <= MAX_ATTEMPTS + 1
        /\ (wk.pos > 0 /\ CurId = j /\ wk.pc \in RetryOps)
              => /\ wk.attempt < MAX_ATTEMPTS
                 /\ wk.attempt = Cardinality(Calls(j, {wk.pc}))
        /\ Cardinality(Calls(j, RetryOps)) = MAX_ATTEMPTS
              => /\ ~(wk.pos > 0 /\ CurId = j /\ wk.pc \in RetryOps)
                 /\ OkCalls(j, RetryOps) = {} => Returned(j)
        /\ Finished(j) => (OkCalls(j, {"xack"}) # {} /\ j \notin group.pel)

\* a reply job whose parent was synthesized and whose own post was answered
\* by Retry-After responses and by retryable errors, 4 in all: 5
\* chat_postMessage calls, and the entry is acked
C35_Witness ==
    \E j \in ReplyJobs :
        /\ Cardinality(PostMessageCalls(j)) = MAX_ATTEMPTS + 1
        /\ \E a, b \in Calls(j, {"post"}) : wlog[a].res = "retry_after" /\ wlog[b].res = "retryable"
        /\ OkCalls(j, {"post"}) = {}
        /\ OkCalls(j, {"xack"}) # {}
        /\ j \notin group.pel

\* an update job whose 4 chat_update calls all failed, acked
C35_UpdateGivenUp ==
    \E j \in UpdateJobs :
        /\ Cardinality(Calls(j, {"update"})) = MAX_ATTEMPTS
        /\ OkCalls(j, {"update"}) = {}
        /\ OkCalls(j, {"xack"}) # {}

\* ========================================================================
\* Soundness of the maps
\* ========================================================================
MapEntries(kind) == { rec \in redis_kv : rec.key[1] = "map" /\ rec.key[2] = kind }

\* the successful platform posts of kind op that returned destination ts d
PostsReturning(op, d) ==
    { i \in 1..Len(wlog) : wlog[i].op = op /\ wlog[i].res = "ok" /\ wlog[i].ts = d }

\* call i carried the source message ts of channel c
CarriedSource(i, c, ts) ==
    /\ wlog[i].job \in 1..Len(stream)
    /\ stream[wlog[i].job].source_channel_id = c
    /\ wlog[i].src = ts

\* C37: map soundness.  The value of a MsgMap entry (source channel, source
\* ts) is the destination ts returned by a post the worker made for that
\* source message, and the value of a ParentMap entry (source channel,
\* parent ts) is the destination ts of a synthetic parent posted for that
\* source parent; after any sequence of jobs, duplicated jobs included, no
\* entry holds the destination ts of a post made for another source message.
C37_MapSoundness ==
    /\ \A rec \in MapEntries("msg") :
          /\ PostsReturning("post", rec.val) # {}
          /\ PostsReturning("post_parent", rec.val) = {}
          /\ \A i \in PostsReturning("post", rec.val) : CarriedSource(i, rec.key[3], rec.key[4])
    /\ \A rec \in MapEntries("parent") :
          /\ PostsReturning("post_parent", rec.val) # {}
          /\ PostsReturning("post", rec.val) = {}
          /\ \A i \in PostsReturning("post_parent", rec.val) : CarriedSource(i, rec.key[3], rec.key[4])

\* a duplicated job: the message was posted twice and its MsgMap entry,
\* written twice, holds the destination ts of the second post
C37_Witness ==
    \E rec \in MapEntries("msg") :
        \E i, k \in 1..Len(wlog) :
            /\ i < k
            /\ wlog[i].op = "post" /\ wlog[i].res = "ok"
            /\ CarriedSource(i, rec.key[3], rec.key[4])
            /\ wlog[i].job # wlog[k].job
            /\ k \in PostsReturning("post", rec.val)
            /\ \E n \in OkCalls(wlog[k].job, {"set_msg"}) : n > k

\* a ParentMap entry for a message older than the thread root: the history
\* call returned it, it was posted as the synthetic parent and the entry is
\* keyed by its ts
C37_ParentEntryOfOlderMessage ==
    \E rec \in MapEntries("parent") :
        /\ rec.key[4] = OlderTs
        /\ \E i \in PostsReturning("post_parent", rec.val) : wlog[i].src = OlderTs

\* ------------------------------------------------------------------------
\* A handler that raises.  handle_post_job, ensure_parent_posted and
\* handle_update_job catch SlackApiError only (lines 185, 226, 264): any
\* other exception of a platform call, such as a connection error, leaves
\* the handler and is caught by the inner handler of main (line 323), which
\* logs it and calls xack (line 326).
\* ------------------------------------------------------------------------
\* the platform call that is due at a position of a handler
CallAt(pc) ==
    CASE pc = "history" -> "history"
      [] pc = "parent_post" -> "post_parent"
      [] pc = "post" -> "post"
      [] pc = "update" -> "update"
      [] OTHER -> None

\* the platform call that is due raises an exception that is not a
\* SlackApiError
HandlerRaises ==
    /\ wk.pos > 0
    /\ CallAt(wk.pc) # None
    /\ faults.api < faults.max_api
    /\ faults' = [faults EXCEPT !.api = @ + 1]
    /\ wlog' = Append(wlog, Eff(CallAt(wk.pc), "raised", CurJob.target_channel_id,
                                NoTs, NoTs, NoTs))
    /\ wk' = [wk EXCEPT !.pc = "ack_again"]
    /\ UNCHANGED <<ovars, env, lrun, redis_kv, lapsed, stream, h, group>>

\* the worker with a platform call that may raise once and a store call that
\* may fail once
HInit ==
    /\ env \in { m \in MasterConfigs : m.STORM_ADMIN_MASTER_CHANNEL_ID # None }
    /\ lrun = [l \in Listeners |-> "running"]
    /\ redis_kv = {}
    /\ lapsed = {}
    /\ faults = NoFaults(MaxStoreFaults, MaxApiFaults, 0)
    /\ stream = <<>>
    /\ h = [l \in Listeners |-> [e \in EventIds |-> Idle]]
    /\ group = NoGroup
    /\ wk = WorkerLocals("start", <<>>, 0)
    /\ wlog = <<>>
    /\ cfg = CfgOff
    /\ sup = SupOff

HNext ==
    \/ WNext
    \/ HandlerRaises

SpecH == HInit /\ [][HNext]_vars

\* ------------------------------------------------------------------------
\* Properties of the worker when a handler raises
\* ------------------------------------------------------------------------
\* the handler of entry j raised
Raised(j) == \E i \in Calls(j, PlatformOps) : wlog[i].res = "raised"

\* the main loop has left entry j
LeftEntry(j) == wk.pos = 0 \/ CurId # j

\* C38: if the handler of a job raises an exception that is not a platform
\* API error, the entry is still acknowledged and the worker goes on to the
\* remaining entries of the batch: once the main loop has left the entry it
\* is out of the pending list, and no later entry of the batch is unhandled
\* when the worker reads again.
C38_RaisingJobDoesNotBlock ==
    \A j \in 1..Len(stream) :
        (Raised(j) /\ LeftEntry(j))
        => /\ j \notin group.pel
           /\ wk.pc = "read"
              => \A k \in (j + 1)..Len(stream) :
                    DeliveredToGroup(k) => Calls(k, {"xack"}) # {}

\* the handler of an entry raised, the xack that followed raised too, and
\* the worker reads again with a later entry of the batch pending and
\* untouched
C38_LaterJobUnhandled ==
    /\ wk.pc = "read"
    /\ \E j, k \in 1..Len(stream) :
         /\ j < k
         /\ Raised(j)
         /\ j \in group.pel
         /\ DeliveredToGroup(k) /\ k \in group.pel
         /\ Calls(k, AnyOp) = {}

\* the part that holds: when the xack that follows the exception is
\* answered, the entry is out of the pending list and the entries after it
\* are handled before the next read
C38_GoesOnWhenAckAnswered ==
    \A j \in 1..Len(stream) :
        (Raised(j) /\ OkCalls(j, {"xack"}) # {})
        => /\ j \notin group.pel
           /\ wk.pc = "read"
              => \A k \in (j + 1)..Len(stream) :
                    DeliveredToGroup(k) => Calls(k, {"xack"}) # {}

\* the handler of the first entry of a batch raised, the entry was acked and
\* the second entry was then handled and acked
C38_NextEntryHandled ==
    \E j, k \in 1..Len(stream) :
        /\ j < k
        /\ Raised(j) /\ OkCalls(j, {"xack"}) # {}
        /\ OkCalls(k, {"post", "update"}) # {}
        /\ OkCalls(k, {"xack"}) # {}

\* ========================================================================
\* Claim keys of messages and of edits
\* ========================================================================
\* the events of the pool with the kind, the channel and the identifier of
\* event e
SameKindIdentityOf ==
    [e \in EventIds |->
        { f \in EventIds : /\ EventPool[f].kind = EventPool[e].kind
                           /\ EventPool[f].channel = EventPool[e].channel
                           /\ IdentifierOf[f] = IdentifierOf[e] }]

\* a message and an edit with one channel and one identifier
MessageAndEdit ==
    { <<e, f>> \in EventIds \X EventIds :
        /\ EventPool[e].kind = "message" /\ EventPool[f].kind = "message_changed"
        /\ EventPool[e].channel = EventPool[f].channel
        /\ IdentifierOf[e] = IdentifierOf[f] }

\* C39: the claim keys of new-message events (fcfs:msg) and of edit events
\* (fcfs:edit) are disjoint: a message and an edit never have one key, and a
\* claim is lost only to a claim won for an event of the same kind, channel
\* and identifier, so a held message claim never makes an edit claim fail and
\* a held edit claim never makes a message claim fail.
C39_ClaimKeysDisjoint ==
    /\ \A e, f \in EventIds :
          EventPool[e].kind # EventPool[f].kind => ClaimKeyOf[e] # ClaimKeyOf[f]
    /\ \A l \in Listeners, e \in EventIds :
          h[l][e].claim = "lost"
          => \E l2 \in Listeners, f \in SameKindIdentityOf[e] :
                <<l2, f>> # <<l, e>> /\ h[l2][f].claim = "won"

\* the claim of a message and the claim of an edit with the same channel and
\* identifier are both held, and both were won
C39_Witness ==
    \E p \in MessageAndEdit :
        /\ KeyHeld(ClaimKeyOf[p[1]]) /\ KeyHeld(ClaimKeyOf[p[2]])
        /\ \E l \in Listeners : h[l][p[1]].claim = "won"
        /\ \E l \in Listeners : h[l][p[2]].claim = "won"

====
